---- MODULE Spec2Model ----
(***************************************************************************)
(* AutoFFmpeg: chunked-parallel transcode orchestration on a render farm.  *)
(*                                                                         *)
(*   AutoFFmpeg.py      event listener: plans the chunks, caps the         *)
(*                      concurrency and submits the encoding job           *)
(*   AutoFFmpegTask.py  worker plugin: runs one task (encode a chunk or    *)
(*                      join the chunks) of the submitted job              *)
(*                                                                         *)
(* The specifications share the variables:                                 *)
(*   SpecPlan    calculateChunks applied to bounded inputs                 *)
(*   SpecTokens  parseFilenameTokens applied to bounded names              *)
(*   SpecSubmit  the job-building tail of AutoFFmpeg.OnJobFinished         *)
(*   Spec        a submitted task job run by the farm's workers            *)
(*   SpecExec    one task execution on a worker, the transcoder a black box *)
(***************************************************************************)
EXTENDS Integers, Sequences, FiniteSets, TLC

\* ------------------------------------------------------------------ bounds
\* Frame numbers of the bounded inputs are drawn from 1..MaxFrame.
MaxFrame == 7
\* Configured ChunkSize values are drawn from 1..MaxChunkSize.
MaxChunkSize == 3
\* Configured MinChunks values are drawn from 1..MaxMinChunks.
MaxMinChunks == 3
\* Requested ConcurrentTasks values are drawn from -1..MaxRequested.
MaxRequested == 4
\* Configured ceilings are drawn from -1..MaxCeiling.
MaxCeiling == 3
\* Names given to parseFilenameTokens are made of up to MaxNameParts parts.
MaxNameParts == 3
\* Frame lists of a run are 1..n for n up to MaxExecFrames.
MaxExecFrames == 5
\* The farm queues failed tasks again at most MaxRequeues times per job.
MaxRequeues == 1

\* ------------------------------------------------------------ Python values
\* Python's None, as returned by calculateChunks ("chunking not viable").
None == [isNone |-> TRUE, ranges |-> <<>>]

\* A list of (start, end) tuples returned by calculateChunks.
Plan(ranges) == [isNone |-> FALSE, ranges |-> ranges]

\* Python truthiness of a calculateChunks result: `if chunks:`.
Truthy(chunks) == ~chunks.isNone /\ Len(chunks.ranges) > 0

Min2(a, b) == IF a < b THEN a ELSE b

Max2(a, b) == IF a > b THEN a ELSE b

\* Mutant of sorted: the list is left in the order it was given.
sorted_unsorted(s) == s

\* sorted(frameList): ascending order, duplicates kept.
sorted(s) == SortSeq(s, LAMBDA a, b : a < b)

\* The set of elements of a list.
Elems(s) == {s[k] : k \in 1..Len(s)}

\* --------------------------------------------------------- calculateChunks
\* numChunks = max(minChunks, (totalFrames + chunkSize - 1) // chunkSize)
NumChunksFor(totalFrames, chunkSize, minChunks) ==
    Max2(minChunks, (totalFrames + chunkSize - 1) \div chunkSize)

\* Mutant of ActualChunkSize: floor instead of ceiling division.
ActualChunkSize_floor(totalFrames, numChunks) == totalFrames \div numChunks

\* actualChunkSize = (totalFrames + numChunks - 1) // numChunks
ActualChunkSize(totalFrames, numChunks) ==
    (totalFrames + numChunks - 1) \div numChunks

\* The loop of calculateChunks: chunk i (0-based) is appended only when its
\* first index lies inside the list.  Indices here are Python's (0-based);
\* fl[k + 1] is Python's frameList[k].
RECURSIVE ChunkLoop(_, _, _, _)
ChunkLoop(fl, i, numChunks, actualChunkSize) ==
    IF i >= numChunks THEN <<>>
    ELSE LET totalFrames == Len(fl)
             startIdx == i * actualChunkSize
             endIdx == Min2((i + 1) * actualChunkSize, totalFrames)
             rest == ChunkLoop(fl, i + 1, numChunks, actualChunkSize)
         IN  IF startIdx < totalFrames
             THEN <<(<<fl[startIdx + 1], fl[endIdx]>>)>> \o rest
             ELSE rest

\* Mutant of NotViable: a list of exactly chunkSize * minChunks frames is refused.
NotViable_inclusive(frameList, chunkSize, minChunks) ==
    Len(frameList) = 0 \/ Len(frameList) <= chunkSize * minChunks

\* The viability test of calculateChunks: too few frames to split.
NotViable(frameList, chunkSize, minChunks) ==
    Len(frameList) = 0 \/ Len(frameList) < chunkSize * minChunks

calculateChunks(frameList, chunkSize, minChunks) ==
    IF NotViable(frameList, chunkSize, minChunks) THEN None
    ELSE LET fl == sorted(frameList)
             totalFrames == Len(fl)
             numChunks == NumChunksFor(totalFrames, chunkSize, minChunks)
             actualChunkSize == ActualChunkSize(totalFrames, numChunks)
         IN  Plan(ChunkLoop(fl, 0, numChunks, actualChunkSize))

\* ----------------------------------------------------- parseFilenameTokens
\* A file or job name is the list of its characters.
\* The lower-case letter of every capital.
ToLower ==
    LET UpperCase == <<"A", "B", "C", "D", "E", "F", "G", "H", "I", "J", "K", "L", "M", "N", "O", "P", "Q", "R", "S", "T", "U", "V", "W", "X", "Y", "Z">>
        LowerCase == <<"a", "b", "c", "d", "e", "f", "g", "h", "i", "j", "k", "l", "m", "n", "o", "p", "q", "r", "s", "t", "u", "v", "w", "x", "y", "z">>
    IN  [ ch \in {UpperCase[a] : a \in 1..Len(UpperCase)} |->
            LowerCase[CHOOSE a \in 1..Len(UpperCase) : UpperCase[a] = ch] ]

\* filename.lower()
lower(filename) ==
    [ j \in 1..Len(filename) |->
        IF filename[j] \in DOMAIN ToLower THEN ToLower[filename[j]] ELSE filename[j] ]

\* `pattern` (a literal) matches the characters of s from position p on.
MatchesAt(pattern, s, p) ==
    /\ p >= 1
    /\ p + Len(pattern) - 1 <= Len(s)
    /\ \A j \in 1..Len(pattern) : s[p + j - 1] = pattern[j]

\* re.search(pattern, s) for a pattern without operators: is there a match.
re_search(pattern, s) == \E p \in 1..Len(s) : MatchesAt(pattern, s, p)

\* trigger_patterns, in the order of the list.
trigger_patterns ==
    << <<"[", "f", "f", "m", "p", "e", "g", "]">>,
       <<"_", "f", "f", "m", "p", "e", "g", "_">>,
       <<"[", "h", "2", "6", "5", "]">>,
       <<"[", "h", "2", "6", "4", "]">>,
       <<"[", "p", "r", "o", "r", "e", "s">>,
       <<"[", "h", "a", "p">>,
       <<"_", "h", "2", "6", "5", "_">>,
       <<"_", "h", "2", "6", "4", "_">>,
       <<"_", "p", "r", "o", "r", "e", "s">>,
       <<"_", "h", "a", "p", "_">> >>

\* Mutant of codec_patterns: h264 is looked for before h265.
codec_patterns_h264First ==
    << [patterns |-> {<<"[", "h", "2", "6", "4", "]">>, <<"_", "h", "2", "6", "4", "_">>}, codec |-> "h264"],
       [patterns |-> {<<"[", "h", "2", "6", "5", "]">>, <<"_", "h", "2", "6", "5", "_">>}, codec |-> "h265"],
       [patterns |-> {<<"[", "p", "r", "o", "r", "e", "s">>}, codec |-> "prores"],
       [patterns |-> {<<"_", "p", "r", "o", "r", "e", "s">>}, codec |-> "prores"],
       [patterns |-> {<<"[", "h", "a", "p">>}, codec |-> "hap"],
       [patterns |-> {<<"_", "h", "a", "p", "_">>}, codec |-> "hap"] >>

\* codec_patterns, in the order of the list; an entry a|b is the set {a, b}.
codec_patterns ==
    << [patterns |-> {<<"[", "h", "2", "6", "5", "]">>, <<"_", "h", "2", "6", "5", "_">>}, codec |-> "h265"],
       [patterns |-> {<<"[", "h", "2", "6", "4", "]">>, <<"_", "h", "2", "6", "4", "_">>}, codec |-> "h264"],
       [patterns |-> {<<"[", "p", "r", "o", "r", "e", "s">>}, codec |-> "prores"],
       [patterns |-> {<<"_", "p", "r", "o", "r", "e", "s">>}, codec |-> "prores"],
       [patterns |-> {<<"[", "h", "a", "p">>}, codec |-> "hap"],
       [patterns |-> {<<"_", "h", "a", "p", "_">>}, codec |-> "hap"] >>

\* Python's None as the value of an entry of the result.
NoValue == [isNone |-> TRUE]

Value(v) == [isNone |-> FALSE, value |-> v]

IsDigit(ch) == ch \in {"0", "1", "2", "3", "4", "5", "6", "7", "8", "9"}

\* The last position of the longest run of digits of s that starts at p;
\* p - 1 when s has no digit there.
RECURSIVE DigitsEnd(_, _)
DigitsEnd(s, p) ==
    IF p <= Len(s) /\ IsDigit(s[p]) THEN DigitsEnd(s, p + 1) ELSE p - 1

\* The ends of the matches of \d+(?:\.\d+)? at p, the one the regular
\* expression engine tries first in front: with the fraction, then without.
NumberEnds(s, p) ==
    LET q == DigitsEnd(s, p)
        r == IF q + 1 <= Len(s) /\ s[q + 1] = "." THEN DigitsEnd(s, q + 2) ELSE q
    IN  IF q < p THEN <<>>
        ELSE IF r > q + 1 THEN <<r, q>>
        ELSE <<q>>

\* The value of a list of digits read as a whole number.
RECURSIVE WholeValue(_)
WholeValue(d) ==
    LET DigitValue(ch) ==
            CASE ch = "0" -> 0 [] ch = "1" -> 1 [] ch = "2" -> 2 [] ch = "3" -> 3
              [] ch = "4" -> 4 [] ch = "5" -> 5 [] ch = "6" -> 6 [] ch = "7" -> 7
              [] ch = "8" -> 8 [] ch = "9" -> 9
    IN  IF Len(d) = 0 THEN 0
        ELSE 10 * WholeValue(SubSeq(d, 1, Len(d) - 1)) + DigitValue(d[Len(d)])

\* A list of digits without the zeros at its end.
RECURSIVE NoTrailingZeros(_)
NoTrailingZeros(d) ==
    IF Len(d) > 0 /\ d[Len(d)] = "0" THEN NoTrailingZeros(SubSeq(d, 1, Len(d) - 1))
    ELSE d

\* float(text) for text of the form \d+ or \d+\.\d+: the whole part and the
\* digits of the fraction, so that "24", "024" and "24.0" are the same number.
float(text) ==
    LET q == DigitsEnd(text, 1)
    IN  [ whole |-> WholeValue(SubSeq(text, 1, q)),
          frac |-> NoTrailingZeros(SubSeq(text, q + 2, Len(text))) ]

\* The alternatives of the FPS pattern, in their order:
\*   \[(\d+(?:\.\d+)?)fps\] | _(\d+(?:\.\d+)?)fps_ | _(\d+(?:\.\d+)?)fps
fps_alternatives ==
    << [open |-> "[", close |-> <<"f", "p", "s", "]">>],
       [open |-> "_", close |-> <<"f", "p", "s", "_">>],
       [open |-> "_", close |-> <<"f", "p", "s">>] >>

\* The group an alternative captures when it matches at p, else NoValue.
FpsGroupAt(alt, s, p) ==
    LET ends == NumberEnds(s, p + 1)
        good == {j \in 1..Len(ends) : MatchesAt(alt.close, s, ends[j] + 1)}
    IN  IF s[p] # alt.open \/ good = {} THEN NoValue
        ELSE LET j == CHOOSE a \in good : \A b \in good : a <= b
             IN  Value(SubSeq(s, p + 1, ends[j]))

\* What the first alternative that matches at p captures, else NoValue.
FpsMatchAt(s, p) ==
    LET good == {a \in 1..Len(fps_alternatives) :
                    ~FpsGroupAt(fps_alternatives[a], s, p).isNone}
    IN  IF good = {} THEN NoValue
        ELSE FpsGroupAt(fps_alternatives[CHOOSE a \in good : \A b \in good : a <= b], s, p)

\* fps_match: re.search returns the leftmost match.
fps_match(s) ==
    LET good == {p \in 1..Len(s) : ~FpsMatchAt(s, p).isNone}
    IN  IF good = {} THEN NoValue
        ELSE FpsMatchAt(s, CHOOSE p \in good : \A q \in good : p <= q)

\* The profiles of prores(4444xq|4444|422hq|422|proxy|lt), in their order.
prores_profiles ==
    << <<"4", "4", "4", "4", "x", "q">>, <<"4", "4", "4", "4">>, <<"4", "2", "2", "h", "q">>, <<"4", "2", "2">>, <<"p", "r", "o", "x", "y">>, <<"l", "t">> >>

\* prores_match: the profile of the leftmost match, the first alternative
\* that matches there.
prores_match(s) ==
    LET pre == <<"p", "r", "o", "r", "e", "s">>
        at(p) == {a \in 1..Len(prores_profiles) :
                     MatchesAt(pre \o prores_profiles[a], s, p)}
        good == {p \in 1..Len(s) : at(p) # {}}
    IN  IF good = {} THEN NoValue
        ELSE LET p == CHOOSE x \in good : \A y \in good : x <= y
             IN  Value(prores_profiles[CHOOSE a \in at(p) : \A b \in at(p) : a <= b])

\* The result of parseFilenameTokens when no trigger pattern matches.
NoTokens == [isNone |-> TRUE]

parseFilenameTokens(filename) ==
    LET filename_lower == lower(filename)
        trigger == \E j \in 1..Len(trigger_patterns) :
                       re_search(trigger_patterns[j], filename_lower)
        hits == {j \in 1..Len(codec_patterns) :
                    \E pat \in codec_patterns[j].patterns : re_search(pat, filename_lower)}
        codec == IF hits = {} THEN NoValue
                 ELSE Value(codec_patterns[CHOOSE j \in hits : \A h \in hits : j <= h].codec)
        fps == fps_match(filename_lower)
    IN  IF ~trigger THEN NoTokens
        ELSE [ isNone |-> FALSE,
               trigger |-> TRUE,
               codec |-> codec,
               fps |-> IF fps.isNone THEN NoValue ELSE Value(float(fps.value)),
               audio |-> \/ re_search(<<"[", "a", "u", "d", "i", "o", "]">>, filename_lower)
                         \/ re_search(<<"_", "a", "u", "d", "i", "o", "_">>, filename_lower),
               prores_profile |-> prores_match(filename_lower),
               hap_variant |->
                   IF re_search(<<"h", "a", "p", "a", "l", "p", "h", "a">>, filename_lower) THEN Value("alpha")
                   ELSE IF re_search(<<"h", "a", "p", "q">>, filename_lower) THEN Value("q")
                   ELSE NoValue ]

\* ---------------------------------------------------------- predictFrameRate
\* A frame rate is a number as float() reads it: its whole part and the
\* digits of its fraction.
Rate(whole, frac) == [whole |-> whole, frac |-> frac]

\* Python's truth of a number: it is not zero.
NonZero(x) == x.whole # 0 \/ x.frac # <<>>

\* frame_rate_properties, in the order of the list.
frame_rate_properties ==
    <<"FrameRate", "FPS", "FramesPerSecond", "OutputFrameRate",
      "RenderFrameRate", "ProjectFrameRate", "SceneFrameRate">>

\* text.strip(): without the blanks at its ends.
RECURSIVE strip(_)
strip(text) ==
    IF Len(text) > 0 /\ text[1] = " " THEN strip(Tail(text))
    ELSE IF Len(text) > 0 /\ text[Len(text)] = " " THEN strip(SubSeq(text, 1, Len(text) - 1))
    ELSE text

\* float(text) raises ValueError: the text, blanks aside, is neither \d+ nor
\* \d+\.\d+ (values are made of digits, points, letters and blanks).
ValueError(text) ==
    LET t == strip(text)
        ends == NumberEnds(t, 1)
    IN  Len(t) = 0 \/ Len(ends) = 0 \/ ends[1] # Len(t)

\* One of the two loops over frame_rate_properties: the first value that
\* is not empty, reads as a number and lies in the range 1.0 <= fps <= 120.0.
RateFromInfo(info) ==
    LET InRange(fps) ==
            /\ fps.whole >= 1
            /\ fps.whole < 120 \/ (fps.whole = 120 /\ fps.frac = <<>>)
        good == {j \in 1..Len(frame_rate_properties) :
                    LET frame_rate_info == info[frame_rate_properties[j]]
                    IN  /\ Len(frame_rate_info) > 0
                        /\ Len(strip(frame_rate_info)) > 0
                        /\ ~ValueError(frame_rate_info)
                        /\ InRange(float(strip(frame_rate_info)))}
    IN  IF good = {} THEN NoValue
        ELSE Value(float(strip(info[frame_rate_properties[
                       CHOOSE j \in good : \A h \in good : j <= h]])))

\* What open(\d+(?:\.\d+)?)close captures when it matches at p, else NoValue.
NumberGroupAt(open, close, s, p) ==
    LET ends == NumberEnds(s, p + Len(open))
        good == {j \in 1..Len(ends) : MatchesAt(close, s, ends[j] + 1)}
    IN  IF ~MatchesAt(open, s, p) \/ good = {} THEN NoValue
        ELSE Value(SubSeq(s, p + Len(open),
                          ends[CHOOSE a \in good : \A b \in good : a <= b]))

\* re.search(open(\d+(?:\.\d+)?)close, s).group(1): the leftmost match.
number_search(open, close, s) ==
    LET good == {p \in 1..Len(s) : ~NumberGroupAt(open, close, s, p).isNone}
    IN  IF good = {} THEN NoValue
        ELSE NumberGroupAt(open, close, s, CHOOSE p \in good : \A r \in good : p <= r)

\* common_patterns, in the order of the list.
common_patterns ==
    << [pattern |-> <<"2", "3", ".", "9", "7", "6">>, fps |-> Rate(23, <<"9", "7", "6">>)],
       [pattern |-> <<"2", "3", "9", "7", "6">>, fps |-> Rate(23, <<"9", "7", "6">>)],
       [pattern |-> <<"2", "9", ".", "9", "7">>, fps |-> Rate(29, <<"9", "7">>)],
       [pattern |-> <<"2", "9", "9", "7">>, fps |-> Rate(29, <<"9", "7">>)],
       [pattern |-> <<"5", "9", ".", "9", "4">>, fps |-> Rate(59, <<"9", "4">>)],
       [pattern |-> <<"5", "9", "9", "4">>, fps |-> Rate(59, <<"9", "4">>)],
       [pattern |-> <<"2", "4", "f", "p", "s">>, fps |-> Rate(24, <<>>)],
       [pattern |-> <<"_", "2", "4", "_">>, fps |-> Rate(24, <<>>)],
       [pattern |-> <<"p", "2", "4">>, fps |-> Rate(24, <<>>)],
       [pattern |-> <<"2", "5", "f", "p", "s">>, fps |-> Rate(25, <<>>)],
       [pattern |-> <<"_", "2", "5", "_">>, fps |-> Rate(25, <<>>)],
       [pattern |-> <<"p", "2", "5">>, fps |-> Rate(25, <<>>)],
       [pattern |-> <<"3", "0", "f", "p", "s">>, fps |-> Rate(30, <<>>)],
       [pattern |-> <<"_", "3", "0", "_">>, fps |-> Rate(30, <<>>)],
       [pattern |-> <<"p", "3", "0">>, fps |-> Rate(30, <<>>)],
       [pattern |-> <<"6", "0", "f", "p", "s">>, fps |-> Rate(60, <<>>)],
       [pattern |-> <<"_", "6", "0", "_">>, fps |-> Rate(60, <<>>)],
       [pattern |-> <<"p", "6", "0">>, fps |-> Rate(60, <<>>)] >>

\* predictFrameRate(job): the job's info entries, then its plugin info
\* entries, then its lower-cased name: a number in front of fps, a known
\* rate between two underscores, one of the common patterns; else None.
predictFrameRate(job) ==
    LET job_name == lower(job.JobName)
        underscore_rates ==
            { Rate(23, <<"9", "7", "6">>), Rate(24, <<>>), Rate(25, <<>>),
              Rate(29, <<"9", "7">>), Rate(30, <<>>), Rate(50, <<>>),
              Rate(59, <<"9", "4">>), Rate(60, <<>>) }
        fps_match_ == number_search(<<>>, <<"f", "p", "s">>, job_name)
        fps_underscore_match == number_search(<<"_">>, <<"_">>, job_name)
        hits == {j \in 1..Len(common_patterns) :
                    re_search(common_patterns[j].pattern, job_name)}
    IN  IF ~RateFromInfo(job.JobInfo).isNone THEN RateFromInfo(job.JobInfo)
        ELSE IF ~RateFromInfo(job.PluginInfo).isNone THEN RateFromInfo(job.PluginInfo)
        ELSE IF ~fps_match_.isNone THEN Value(float(fps_match_.value))
        ELSE IF /\ ~fps_underscore_match.isNone
                /\ float(fps_underscore_match.value) \in underscore_rates
        THEN Value(float(fps_underscore_match.value))
        ELSE IF hits # {}
        THEN Value(common_patterns[CHOOSE j \in hits : \A h \in hits : j <= h].fps)
        ELSE NoValue

\* ------------------------------------------------- configuration entries
\* A configuration (or plugin-info) entry: present with a value, or absent.
Entry(v) == [set |-> TRUE, value |-> v]

Absent == [set |-> FALSE, value |-> 0]

\* GetConfigEntryWithDefault(key, default, int)
GetConfigEntryWithDefault(entry, default) ==
    IF entry.set THEN entry.value ELSE default

\* Defaults of the event plugin's configuration.
DefaultConcurrentTasks == 3
DefaultProResMax == 1
DefaultGpuMax == 2
DefaultCpuMax == 4
DefaultHapMax == 4

\* --------------------------------------------------------- concurrency cap
\* max_for_codec: the ceiling looked up for the job's codec; Absent is
\* Python's None (a codec with no ceiling entry).
MaxForCodec(codec, enable_gpu, cfg) ==
    LET prores_max_concurrent ==
            GetConfigEntryWithDefault(cfg.ProResMaxConcurrentTasks, DefaultProResMax)
        h264_max_concurrent ==
            GetConfigEntryWithDefault(cfg.H264MaxConcurrentTasks,
                                      IF enable_gpu THEN DefaultGpuMax ELSE DefaultCpuMax)
        h265_max_concurrent ==
            GetConfigEntryWithDefault(cfg.H265MaxConcurrentTasks,
                                      IF enable_gpu THEN DefaultGpuMax ELSE DefaultCpuMax)
        hap_max_concurrent ==
            GetConfigEntryWithDefault(cfg.HapMaxConcurrentTasks, DefaultHapMax)
    IN  CASE codec = "prores" -> Entry(prores_max_concurrent)
          [] codec = "h264" -> Entry(h264_max_concurrent)
          [] codec = "h265" -> Entry(h265_max_concurrent)
          [] codec = "hap" -> Entry(hap_max_concurrent)
          [] OTHER -> Absent

\* Mutant of CapConcurrentTasks: the ceiling replaces the request even when
\* the request is below it.
CapConcurrentTasks_always(concurrent_tasks, max_for_codec) ==
    IF max_for_codec.set /\ max_for_codec.value # 0
    THEN max_for_codec.value
    ELSE concurrent_tasks

\* `if max_for_codec and concurrent_tasks > max_for_codec:` -- a ceiling that
\* is None or 0 is falsy and caps nothing.
CapConcurrentTasks(concurrent_tasks, max_for_codec) ==
    IF max_for_codec.set /\ max_for_codec.value # 0
          /\ concurrent_tasks > max_for_codec.value
    THEN max_for_codec.value
    ELSE concurrent_tasks

\* ------------------------------------------------------------------- paths
\* A path is the list of its parts: names and the separators between them.
\* Mutant of ReplaceBackslashes: the path is written as it is.
ReplaceBackslashes_none(path) == path

\* path.replace("\\", "/")
ReplaceBackslashes(path) ==
    [j \in 1..Len(path) |-> IF path[j] = "\\" THEN "/" ELSE path[j]]

\* os.path.normpath on the worker's operating system: Windows turns every
\* forward slash into a backslash, POSIX leaves both kinds alone.
normpath(os, path) ==
    IF os = "nt"
    THEN [j \in 1..Len(path) |-> IF path[j] = "/" THEN "\\" ELSE path[j]]
    ELSE path

\* os.sep
Sep(os) == IF os = "nt" THEN "\\" ELSE "/"

\* ------------------------------------------------------------ job builders
\* str(keepChunks)
StrBool(b) == IF b THEN "True" ELSE "False"

\* job.JobName + suffix; a name is the list of its parts.
WithSuffix(name, suffix) == Append(name, suffix)

\* name.endswith(suffix)
EndsWith(name, suffix) == Len(name) > 0 /\ name[Len(name)] = suffix

NoPluginInfo == [NumChunks |-> 0, ChunkStart |-> <<>>, ChunkEnd |-> <<>>,
                 ChunkFrames |-> <<>>, KeepChunks |-> "False"]

\* Mutant of FrameDependenciesFor: the edge to the last encode task is missing.
FrameDependenciesFor_dropLast(numChunks) ==
    [k \in 1..(numChunks - 1) |-> <<numChunks, k - 1>>]

\* Mutant of FrameDependenciesFor: every edge points the wrong way, the chunk
\* task waiting for the concat task.
FrameDependenciesFor_reversed(numChunks) ==
    [k \in 1..numChunks |-> <<k - 1, numChunks>>]

\* taskDeps: one "concatTaskFrame:chunkFrame" entry per chunk task.
FrameDependenciesFor(numChunks) ==
    [k \in 1..numChunks |-> <<numChunks, k - 1>>]

\* Mutant of TaskFramesFor: the concat task is not part of the frame list.
TaskFramesFor_noConcat(numChunks) == [k \in 1..numChunks |-> k - 1]

\* frameList = ','.join(str(i) for i in range(numChunks + 1))
TaskFramesFor(numChunks) == [k \in 1..(numChunks + 1) |-> k - 1]

\* pluginInfo['ChunkFrames{idx}'] = endFrame - startFrame + 1
ChunkFramesOf(range) == range[2] - range[1] + 1

\* The job submitted by createTaskBasedEncodingJob.
createTaskBasedEncodingJob(job, chunks, keepChunks, concurrentTasks) ==
    LET numChunks == Len(chunks)
    IN  [ Plugin |-> "AutoFFmpegTask",
          Name |-> WithSuffix(job.JobName, "_Encode"),
          Frames |-> TaskFramesFor(numChunks),
          ChunkSize |-> 1,
          ConcurrentTasks |-> Entry(concurrentTasks),
          FrameDependencies |-> FrameDependenciesFor(numChunks),
          JobDependencies |-> <<>>,
          pluginInfo |->
              [ NumChunks |-> numChunks,
                ChunkStart |-> [k \in 1..numChunks |-> chunks[k][1]],
                ChunkEnd |-> [k \in 1..numChunks |-> chunks[k][2]],
                ChunkFrames |-> [k \in 1..numChunks |-> ChunkFramesOf(chunks[k])],
                KeepChunks |-> StrBool(keepChunks),
                OutputDirectory |-> ReplaceBackslashes(job.outputDirectory) ] ]

\* One job submitted by createFFmpegJob (also used for each chunk job).
createFFmpegJob(job, pluginInfo) ==
    [ Plugin |-> "FFmpeg",
      Name |-> WithSuffix(job.JobName, "_Encode"),
      Frames |-> <<0>>,
      ChunkSize |-> 1,
      ConcurrentTasks |-> Absent,
      FrameDependencies |-> <<>>,
      JobDependencies |-> <<>>,
      pluginInfo |-> pluginInfo ]

\* The jobs submitted by createChunkJobs, one per chunk, in chunk order;
\* each chunk job gets -start_number startFrame and -vframes numFrames.
createChunkJobs(job, chunks) ==
    [ k \in 1..Len(chunks) |->
        createFFmpegJob(job,
            [ NumChunks |-> 0,
              ChunkStart |-> <<chunks[k][1]>>,
              ChunkEnd |-> <<chunks[k][2]>>,
              ChunkFrames |-> <<chunks[k][2] - chunks[k][1] + 1>>,
              KeepChunks |-> "False" ]) ]

\* The job submitted by createConcatJob; dependsOnJobs are the chunk jobs' ids.
createConcatJob(job, dependsOnJobs) ==
    [ Plugin |-> "FFmpeg",
      Name |-> WithSuffix(job.JobName, "_Concat"),
      Frames |-> <<0>>,
      ChunkSize |-> 1,
      ConcurrentTasks |-> Absent,
      FrameDependencies |-> <<>>,
      JobDependencies |-> dependsOnJobs,
      pluginInfo |-> NoPluginInfo ]

\* ------------------------------------------------------------- file names
\* str(n) for n >= 0: the list of its decimal digits.
RECURSIVE Digits(_)
Digits(n) == IF n < 10 THEN <<n>> ELSE Digits(n \div 10) \o <<n % 10>>

\* "{:03d}".format(n): at least three digits, zeros in front.
Pad3(n) ==
    LET d == Digits(n)
    IN  IF Len(d) >= 3 THEN d ELSE [j \in 1..(3 - Len(d)) |-> 0] \o d

\* "{}_chunk{:03d}.{}".format(basename, i, container), i the chunk number
ChunkFilename(basename, i, container) ==
    <<basename, "_chunk">> \o Pad3(i) \o <<".", container>>

\* "{}_concat.txt".format(basename)
ConcatListFilename(basename) == <<basename, "_concat", ".", "txt">>

\* os.path.basename(OutputFile), where basename and container are the two
\* parts os.path.splitext makes of it.
OutputFilename(basename, container) == <<basename, ".", container>>

\* ------------------------------------------------------------------- files
\* {basename}_chunk{i:03d}.{container}, i the 1-based chunk number
ChunkFile(i) == <<"chunk", i>>

\* {basename}_concat.txt
ConcatList == <<"concat", 0>>

\* the final output file
FinalOutput == <<"final", 0>>

\* frame f of the input sequence
FrameFile(f) == <<"frame", f>>

\* A worker-local render directory Job_{jobId}_Task_{taskId} that does not exist.
NoScratch == [exists |-> FALSE, input |-> {}, output |-> {}]

\* os.path.join(localPath, "Job_{}_Task_{}".format(jobId, taskId)): the name
\* of the local render directory of the task with identifier taskId.
LocalRenderDirName(jobId, taskId) == <<"Job", jobId, "Task", taskId>>

\* ---------------------------------------------------------- task execution
NoArgs == [kind |-> "none", chunkIndex |-> 0, start_number |-> 0, vframes |-> 0,
           f |-> "", cv |-> "", concatList |-> <<>>]

\* A plugin instance before PreRenderTasks.
IdleExec ==
    [ pc |-> "idle",
      localRenderDir |-> FALSE,
      preRole |-> "none", renderRole |-> "none",
      copyRole |-> "none", cleanupRole |-> "none",
      stageOutcome |-> "none", copyOutcome |-> "none", removal |-> "none",
      exitCode |-> "none", invocations |-> 0,
      args |-> NoArgs,
      chunk |-> 0, attempt |-> 0, lastDelay |-> 0,
      failed_chunks |-> <<>> ]

\* Retry ceilings of the chunk and concat-list deletion loops.
max_retries == 15
concat_list_retries == 3

\* time.sleep(5) before the first deletion attempt, in seconds.
InitialGrace == 5

\* The ceiling of the delay between two deletion attempts, in seconds.
MaxDelay == 10

\* The callbacks the plugin registers with the farm's worker in __init__.
\* Mutant of RegisteredCallbacks: the plugin also takes over the check of
\* the transcoder's exit code.
RegisteredCallbacks_withCheckExitCode ==
    {"InitializeProcess", "RenderExecutable", "RenderArgument",
     "PreRenderTasks", "PostRenderTasks", "CheckExitCode"}

RegisteredCallbacks ==
    {"InitializeProcess", "RenderExecutable", "RenderArgument",
     "PreRenderTasks", "PostRenderTasks"}

\* ------------------------------------------------------------------- state
VARIABLES
    planArgs,     \* the arguments of one call of calculateChunks or parseFilenameTokens
    planResult,   \* what the call returned
    planPc,       \* "ready" before the call, "done" after it
    event,        \* the finished render job and what the listener finds out about it
    config,       \* the event plugin's configuration entries
    submitted,    \* the jobs submitted to the farm, in submission order
    eventPc,      \* "pending", then "returned" or "raised"
    plugin,       \* what a worker reads besides the submitted plugin info
    taskStatus,   \* the farm's status of each task of the task job
    exec,         \* each task's plugin execution: position and attributes
    shared,       \* the files on shared storage
    scratch,      \* each task's worker-local render directory
    requeues      \* how many failed tasks the farm has queued again

planVars == <<planArgs, planResult, planPc>>

eventVars == <<event, config, submitted, eventPc>>

farmVars == <<plugin, taskStatus, exec, shared, scratch, requeues>>

vars == <<planArgs, planResult, planPc, event, config, submitted, eventPc,
          plugin, taskStatus, exec, shared, scratch, requeues>>

\* ------------------------------------------------- inputs of calculateChunks
\* Ascending and descending lists of the subsets of 1..MaxFrame.
RECURSIVE Ascending(_)
Ascending(S) ==
    IF S = {} THEN <<>>
    ELSE LET m == CHOOSE x \in S : \A y \in S : x <= y
         IN  <<m>> \o Ascending(S \ {m})

Reverse(s) == [k \in 1..Len(s) |-> s[Len(s) + 1 - k]]

FrameLists ==
    {Ascending(S) : S \in SUBSET (1..MaxFrame)}
        \cup {Reverse(Ascending(S)) : S \in SUBSET (1..MaxFrame)}

Range(a, b) == [k \in 1..(b - a + 1) |-> a + k - 1]

\* The two planning scenarios of the specification's section 8.
ScenarioArgs ==
    { [frameList |-> Range(1, 400), chunkSize |-> 150, minChunks |-> 2],
      [frameList |-> Range(1, 10), chunkSize |-> 150, minChunks |-> 2] }

BoundedArgs ==
    [frameList : FrameLists, chunkSize : 1..MaxChunkSize, minChunks : 1..MaxMinChunks]

\* ------------------------------------------------- inputs of OnJobFinished
Codecs == {"prores", "h264", "h265", "hap", "vp9"}

\* A render job that passes every filter, with frames 1..6.
DefaultEvent ==
    [ JobPlugin |-> "MayaBatch",
      JobName |-> <<"shot010">>,
      JobFramesList |-> Range(1, 6),
      outputDirectory |-> <<"Z:", "\\", "out">>,
      State |-> "Global Enabled",
      passesFilters |-> TRUE,
      codec |-> "h265",
      farmAccepts |-> TRUE ]

\* Task-based chunking enabled, chunks of 2 frames, every ceiling left unset.
DefaultConfig ==
    [ UseTaskBasedChunking |-> TRUE,
      EnableChunking |-> FALSE,
      ChunkSize |-> 2,
      MinChunks |-> 2,
      KeepChunks |-> FALSE,
      EnableGPU |-> TRUE,
      ConcurrentTasks |-> Absent,
      ProResMaxConcurrentTasks |-> Absent,
      H264MaxConcurrentTasks |-> Absent,
      H265MaxConcurrentTasks |-> Absent,
      HapMaxConcurrentTasks |-> Absent ]

\* Integer entries: absent, or a value of -1..max.
IntEntries(max) == {Absent} \cup {Entry(v) : v \in (-1)..max}

\* Finished jobs of every plugin, name and listener state.
GateEvents ==
    { [DefaultEvent EXCEPT !.JobPlugin = p, !.JobName = n, !.State = st,
                           !.passesFilters = pf, !.farmAccepts = fa] :
        p \in {"MayaBatch", "FFmpeg", "AutoFFmpegTask"},
        n \in {<<"shot010">>, <<"shot010", "_Encode">>, <<"shot010", "_Concat">>},
        st \in {"Disabled", "Global Enabled", "Opt-In", "Token-Based"},
        pf \in BOOLEAN, fa \in BOOLEAN }

\* Every codec, hardware mode, request and combination of ceilings.
CapConfigs ==
    { [DefaultConfig EXCEPT !.EnableGPU = g, !.ConcurrentTasks = r,
                            !.ProResMaxConcurrentTasks = c1,
                            !.H264MaxConcurrentTasks = c2,
                            !.H265MaxConcurrentTasks = c3,
                            !.HapMaxConcurrentTasks = c4] :
        g \in BOOLEAN, r \in IntEntries(MaxRequested),
        c1 \in IntEntries(MaxCeiling), c2 \in IntEntries(MaxCeiling),
        c3 \in IntEntries(MaxCeiling), c4 \in IntEntries(MaxCeiling) }

\* Scenario C of the specification: h265 on GPU, ceiling 2, request 5.
ScenarioCConfig ==
    [DefaultConfig EXCEPT !.ConcurrentTasks = Entry(5),
                          !.H265MaxConcurrentTasks = Entry(2)]

\* Every frame list, chunk size, minimum and chunking mode.
PlanConfigs ==
    { [DefaultConfig EXCEPT !.UseTaskBasedChunking = t, !.EnableChunking = e,
                            !.ChunkSize = c, !.MinChunks = m, !.KeepChunks = kc] :
        t \in BOOLEAN, e \in BOOLEAN, c \in 1..MaxChunkSize, m \in 1..MaxMinChunks,
        kc \in BOOLEAN }

\* No task job yet; the frames the render job wrote are on shared storage.
InitFarm(job) ==
    /\ taskStatus = <<>>
    /\ exec = <<>>
    /\ scratch = <<>>
    /\ shared = {FrameFile(f) : f \in Elems(job.JobFramesList)}
    /\ requeues = 0

\* Local rendering off; a job without IsEncodingJob / IsConcatJob entries.
\* The worker runs Windows and maps no path.
DefaultPlugin ==
    [ EnableLocalRendering |-> FALSE,
      CleanupLocalFiles |-> TRUE,
      IsEncodingJob |-> FALSE,
      IsConcatJob |-> FALSE,
      os |-> "nt",
      pathMapping |-> FALSE ]

InitPlan ==
    /\ planArgs \in BoundedArgs \cup ScenarioArgs
    /\ planResult = None
    /\ planPc = "ready"
    /\ event = DefaultEvent
    /\ config = DefaultConfig
    /\ submitted = <<>>
    /\ eventPc = "pending"
    /\ InitFarm(DefaultEvent)
    /\ plugin = DefaultPlugin

CallCalculateChunks ==
    /\ planPc = "ready"
    /\ planResult' = calculateChunks(planArgs.frameList, planArgs.chunkSize,
                                     planArgs.minChunks)
    /\ planPc' = "done"
    /\ UNCHANGED planArgs
    /\ UNCHANGED eventVars
    /\ UNCHANGED farmVars

NextPlan == CallCalculateChunks

SpecPlan == InitPlan /\ [][NextPlan]_vars

\* --------------------------------------------- inputs of parseFilenameTokens
\* The parts the bounded names are made of: every trigger, codec, frame-rate
\* and audio token, some in capitals, and the underscore between them.
NameParts ==
    { <<"[", "f", "f", "m", "p", "e", "g", "]">>,
      <<"_", "f", "f", "m", "p", "e", "g", "_">>,
      <<"[", "H", "2", "6", "5", "]">>,
      <<"_", "h", "2", "6", "5", "_">>,
      <<"[", "h", "2", "6", "4", "]">>,
      <<"_", "H", "2", "6", "4", "_">>,
      <<"[", "p", "r", "o", "r", "e", "s">>,
      <<"_", "p", "r", "o", "r", "e", "s">>,
      <<"[", "h", "a", "p">>,
      <<"_", "h", "a", "p", "_">>,
      <<"[", "a", "u", "d", "i", "o", "]">>,
      <<"_", "a", "u", "d", "i", "o", "_">>,
      <<"[", "2", "4", "f", "p", "s", "]">>,
      <<"_", "3", "0", "f", "p", "s">>,
      <<"_">> }

\* The names of at most n parts.
RECURSIVE NamesOf(_)
NamesOf(n) ==
    IF n = 0 THEN {<<>>}
    ELSE LET shorter == NamesOf(n - 1)
         IN  shorter \cup {nm \o part : nm \in shorter, part \in NameParts}

\* The examples of the function's documentation, and names with a decimal
\* frame rate, two frame-rate tokens, a token that only starts like [hap,
\* and a frame rate of zero.
ScenarioNames ==
    { <<"r", "e", "n", "d", "e", "r", "_", "[", "f", "f", "m", "p", "e", "g", "]", "_", "[", "h", "2", "6", "4", "]", "_", "[", "3", "0", "f", "p", "s", "]", ".", "e", "x", "r">>,
      <<"r", "e", "n", "d", "e", "r", "_", "f", "f", "m", "p", "e", "g", "_", "p", "r", "o", "r", "e", "s", "4", "2", "2", "_", "2", "4", "f", "p", "s", ".", "e", "x", "r">>,
      <<"r", "e", "n", "d", "e", "r", "_", "[", "a", "u", "d", "i", "o", "]", "_", "[", "h", "a", "p", "]", ".", "e", "x", "r">>,
      <<"s", "h", "o", "t", "_", "[", "F", "F", "M", "P", "E", "G", "]", "_", "2", "3", ".", "9", "7", "6", "f", "p", "s", "_", "[", "2", "5", "f", "p", "s", "]">>,
      <<"[", "h", "a", "p", "q", "]", "_", "1", "2", ".", "5", "0", "f", "p", "s", "_">>,
      <<"[", "h", "a", "p", "p", "y", "]", "x", "[", "0", "f", "p", "s", "]">> }

InitTokens ==
    /\ planArgs \in [filename : NamesOf(MaxNameParts) \cup ScenarioNames]
    /\ planResult = NoTokens
    /\ planPc = "ready"
    /\ event = DefaultEvent
    /\ config = DefaultConfig
    /\ submitted = <<>>
    /\ eventPc = "pending"
    /\ InitFarm(DefaultEvent)
    /\ plugin = DefaultPlugin

CallParseFilenameTokens ==
    /\ planPc = "ready"
    /\ planResult' = parseFilenameTokens(planArgs.filename)
    /\ planPc' = "done"
    /\ UNCHANGED planArgs
    /\ UNCHANGED eventVars
    /\ UNCHANGED farmVars

SpecTokens == InitTokens /\ [][CallParseFilenameTokens]_vars

\* ------------------------------------------------------------ OnJobFinished
\* Mutant of IsOwnJob: the finished job is tested by its plugin only, and
\* only for the plugin of the task job.
IsOwnJob_taskPluginOnly(job) == job.JobPlugin = "AutoFFmpegTask"

\* The listener skips its own encoding jobs, by plugin and by name.
IsOwnJob(job) ==
    \/ job.JobPlugin \in {"FFmpeg", "AutoFFmpegTask"}
    \/ EndsWith(job.JobName, "_Encode")
    \/ EndsWith(job.JobName, "_Concat")

\* The jobs OnJobFinished builds once the codec, the arguments and the frame
\* rate are settled: the task job, or chunk jobs and a concat job, or a
\* single encode job.
JobsToSubmit(job, cfg) ==
    LET enable_gpu == cfg.EnableGPU
        concurrent_tasks ==
            GetConfigEntryWithDefault(cfg.ConcurrentTasks, DefaultConcurrentTasks)
        max_for_codec == MaxForCodec(job.codec, enable_gpu, cfg)
        capped == CapConcurrentTasks(concurrent_tasks, max_for_codec)
        chunks == calculateChunks(job.JobFramesList, cfg.ChunkSize, cfg.MinChunks)
    IN  IF cfg.UseTaskBasedChunking /\ Truthy(chunks)
        THEN <<createTaskBasedEncodingJob(job, chunks.ranges, cfg.KeepChunks, capped)>>
        ELSE IF cfg.EnableChunking /\ Truthy(chunks)
        THEN LET chunkJobs == createChunkJobs(job, chunks.ranges)
                 chunkJobIds == [k \in 1..Len(chunkJobs) |-> k]
             IN  chunkJobs \o <<createConcatJob(job, chunkJobIds)>>
        ELSE <<createFFmpegJob(job, NoPluginInfo)>>

\* The farm queues one task per entry of the Frames list of a submitted
\* AutoFFmpegTask job (ChunkSize 1).
FarmCreatesTasks ==
    LET tasks == IF Len(submitted') >= 1 /\ submitted'[1].Plugin = "AutoFFmpegTask"
                 THEN 1..Len(submitted'[1].Frames)
                 ELSE {}
    IN  /\ taskStatus' = [k \in tasks |-> "Queued"]
        /\ exec' = [k \in tasks |-> IdleExec]
        /\ scratch' = [k \in tasks |-> NoScratch]

\* The handler of the job-finished event, from its first line to its return.
OnJobFinished ==
    /\ eventPc = "pending"
    /\ IF IsOwnJob(event) \/ event.State = "Disabled" \/ ~event.passesFilters
       THEN /\ submitted' = submitted
            /\ eventPc' = "returned"
       ELSE IF ~event.farmAccepts
       THEN /\ submitted' = submitted
            /\ eventPc' = "raised"
       ELSE /\ submitted' = submitted \o JobsToSubmit(event, config)
            /\ eventPc' = "returned"
    /\ FarmCreatesTasks
    /\ UNCHANGED <<event, config, plugin, shared, requeues>>
    /\ UNCHANGED planVars

InitSubmit ==
    /\ \/ event \in GateEvents /\ config = DefaultConfig
       \/ event \in {[DefaultEvent EXCEPT !.codec = c] : c \in Codecs}
            /\ config \in CapConfigs \cup {ScenarioCConfig}
       \/ event \in {[DefaultEvent EXCEPT !.JobFramesList = f] : f \in FrameLists}
            /\ config \in PlanConfigs
    /\ submitted = <<>>
    /\ eventPc = "pending"
    /\ InitFarm(event)
    /\ plugin = DefaultPlugin
    /\ planArgs = [frameList |-> <<>>, chunkSize |-> 1, minChunks |-> 1]
    /\ planResult = None
    /\ planPc = "done"

NextSubmit == OnJobFinished

SpecSubmit == InitSubmit /\ [][NextSubmit]_vars

\* ------------------------------------------- the listener and its own jobs
\* A finished render job of any plugin, name and listener state, under
\* every chunking mode.
InitListener ==
    /\ event \in GateEvents
    /\ config \in PlanConfigs
    /\ submitted = <<>>
    /\ eventPc = "pending"
    /\ InitFarm(event)
    /\ plugin = DefaultPlugin
    /\ planArgs = [frameList |-> <<>>, chunkSize |-> 1, minChunks |-> 1]
    /\ planResult = None
    /\ planPc = "done"

\* A job the listener submitted finishes on the farm, and the farm calls
\* OnJobFinished with it: job.JobPlugin and job.JobName are those of the
\* submitted job.
SubmittedJobFinished ==
    /\ eventPc = "returned"
    /\ \E j \in 1..Len(submitted) :
          event' = [event EXCEPT !.JobPlugin = submitted[j].Plugin,
                                 !.JobName = submitted[j].Name]
    /\ eventPc' = "pending"
    /\ UNCHANGED <<config, submitted, farmVars>>
    /\ UNCHANGED planVars

SpecListener == InitListener /\ [][OnJobFinished \/ SubmittedJobFinished]_vars

\* ------------------------------------------------ the frame rate of the job
\* filename_tokens of OnJobFinished: in Token-Based state the tokens of the
\* first source that has any, the job name before the input file; in the
\* other states the tokens of the input file, else those of the job name.
FilenameTokens(state, jobName, inputFileName) ==
    IF state = "Token-Based"
    THEN IF ~parseFilenameTokens(jobName).isNone THEN parseFilenameTokens(jobName)
         ELSE parseFilenameTokens(inputFileName)
    ELSE IF ~parseFilenameTokens(inputFileName).isNone
         THEN parseFilenameTokens(inputFileName)
         ELSE parseFilenameTokens(jobName)

\* frame_rate_override > 0
Positive(x) == x.whole > 0 \/ (x.whole = 0 /\ x.frac # <<>>)

\* Mutant of ChooseFrameRate: the override is looked at before the token.
ChooseFrameRate_overrideFirst(filename_tokens, frame_rate_override, detected_frame_rate, predicted_frame_rate) ==
    IF Positive(frame_rate_override) THEN Value(frame_rate_override)
    ELSE IF /\ ~filename_tokens.isNone
            /\ ~filename_tokens.fps.isNone
            /\ NonZero(filename_tokens.fps.value)
    THEN filename_tokens.fps
    ELSE IF ~detected_frame_rate.isNone /\ NonZero(detected_frame_rate.value)
    THEN detected_frame_rate
    ELSE IF ~predicted_frame_rate.isNone /\ NonZero(predicted_frame_rate.value)
    THEN predicted_frame_rate
    ELSE NoValue

\* final_frame_rate of OnJobFinished, NoValue where the handler returns
\* without one; each `if` tests the truth of its value, so that a rate of
\* zero is passed over like None.
ChooseFrameRate(filename_tokens, frame_rate_override, detected_frame_rate, predicted_frame_rate) ==
    IF /\ ~filename_tokens.isNone
       /\ ~filename_tokens.fps.isNone
       /\ NonZero(filename_tokens.fps.value)
    THEN filename_tokens.fps
    ELSE IF Positive(frame_rate_override) THEN Value(frame_rate_override)
    ELSE IF ~detected_frame_rate.isNone /\ NonZero(detected_frame_rate.value)
    THEN detected_frame_rate
    ELSE IF ~predicted_frame_rate.isNone /\ NonZero(predicted_frame_rate.value)
    THEN predicted_frame_rate
    ELSE NoValue

\* No entry of the job's info has a value.
EmptyInfo ==
    [prop \in {frame_rate_properties[j] : j \in 1..Len(frame_rate_properties)} |-> <<>>]

\* Info entries: none; a rate; a word and then a rate; a rate below the
\* range and then a rate with blanks around it; a blank.
InfoScenarios ==
    { EmptyInfo,
      [EmptyInfo EXCEPT !["FrameRate"] = <<"6", "0">>],
      [EmptyInfo EXCEPT !["FrameRate"] = <<"a", "b", "c">>, !["FPS"] = <<"5", "0">>],
      [EmptyInfo EXCEPT !["FrameRate"] = <<"0", ".", "5">>,
                        !["SceneFrameRate"] = <<" ", "4", "8", " ">>],
      [EmptyInfo EXCEPT !["FrameRate"] = <<" ">>] }

\* The finished job has passed every test before the tokens are looked at.
\* Names of the input file: without tokens, with a trigger only, with a
\* frame-rate token but no trigger, with frame-rate tokens of 30, 0 and
\* 23.976.  Names of the job: without a number, with tokens, with a number
\* between underscores that is a known rate and one that is not, with
\* common patterns, with 0 and 500 in front of fps.
InitFrameRate ==
    /\ LET InputFileNames ==
            { <<"s", "h", "o", "t", ".", "e", "x", "r">>,
              <<"s", "h", "o", "t", "_", "[", "f", "f", "m", "p", "e", "g", "]", ".", "e", "x", "r">>,
              <<"s", "h", "o", "t", "_", "[", "3", "0", "f", "p", "s", "]", ".", "e", "x", "r">>,
              <<"s", "h", "o", "t", "_", "[", "h", "2", "6", "4", "]", "_", "[", "3", "0", "f", "p", "s", "]", ".", "e", "x", "r">>,
              <<"s", "h", "o", "t", "_", "[", "F", "F", "M", "P", "E", "G", "]", "_", "[", "0", "f", "p", "s", "]", ".", "e", "x", "r">>,
              <<"s", "h", "o", "t", "_", "f", "f", "m", "p", "e", "g", "_", "_", "2", "3", ".", "9", "7", "6", "f", "p", "s", ".", "e", "x", "r">> }
           JobNames ==
            { <<"s", "h", "o", "t">>,
              <<"s", "h", "o", "t", "_", "[", "p", "r", "o", "r", "e", "s", "]", "_", "[", "2", "5", "f", "p", "s", "]">>,
              <<"s", "h", "o", "t", "_", "2", "4", "_", "v", "2">>,
              <<"s", "h", "o", "t", "_", "7", "_", "6", "0", "_">>,
              <<"S", "h", "o", "t", "_", "P", "3", "0">>,
              <<"s", "h", "o", "t", "_", "2", "9", "9", "7">>,
              <<"s", "h", "o", "t", "_", "0", "f", "p", "s">>,
              <<"s", "h", "o", "t", "_", "5", "0", "0", "f", "p", "s">> }
       IN  planArgs \in
                    [ JobName : JobNames,
                      inputFileName : InputFileNames,
                      JobInfo : InfoScenarios,
                      PluginInfo : {EmptyInfo, [EmptyInfo EXCEPT !["FPS"] = <<"4", "8">>]},
                      RequireTokens : BOOLEAN,
                      FrameRateOverride : {Rate(0 - 1, <<>>), Rate(0, <<>>), Rate(25, <<>>)},
                      detected_frame_rate :
                          {NoValue, Value(Rate(0, <<>>)), Value(Rate(24, <<>>))} ]
    /\ planResult = [reached |-> FALSE, final_frame_rate |-> NoValue]
    /\ planPc = "ready"
    /\ event \in {[DefaultEvent EXCEPT !.State = st] :
                     st \in {"Global Enabled", "Token-Based"}}
    /\ config = DefaultConfig
    /\ submitted = <<>>
    /\ eventPc = "pending"
    /\ InitFarm(event)
    /\ plugin = DefaultPlugin

\* OnJobFinished from the look at the tokens to the submission: the tokens
\* (the handler returns for a job without tokens in Token-Based state, and
\* in the other states when RequireTokens is set), the frame rate, and the
\* jobs when there is a frame rate.  planArgs holds the job's name and the
\* input file's name as lists of characters.
OnJobFinishedFromTokens ==
    /\ planPc = "ready"
    /\ eventPc = "pending"
    /\ \E filename_tokens \in
              {FilenameTokens(event.State, planArgs.JobName, planArgs.inputFileName)} :
       \E final_frame_rate \in
              {ChooseFrameRate(filename_tokens, planArgs.FrameRateOverride,
                               planArgs.detected_frame_rate, predictFrameRate(planArgs))} :
          LET reached == ~(/\ filename_tokens.isNone
                           /\ event.State = "Token-Based" \/ planArgs.RequireTokens)
          IN  /\ planResult' = [ reached |-> reached,
                                 final_frame_rate |-> IF reached THEN final_frame_rate
                                                      ELSE NoValue ]
              /\ submitted' = IF reached /\ ~final_frame_rate.isNone
                              THEN JobsToSubmit(event, config)
                              ELSE <<>>
    /\ planPc' = "done"
    /\ eventPc' = "returned"
    /\ FarmCreatesTasks
    /\ UNCHANGED <<planArgs, event, config, plugin, shared, requeues>>

SpecFrameRate == InitFrameRate /\ [][OnJobFinishedFromTokens]_vars

\* ------------------------------------------------------- the farm's view
\* The task job and its plugin info, as every worker reads them.
Job == submitted[1]

PluginInfo == Job.pluginInfo

Tasks == DOMAIN taskStatus

\* GetStartFrame(): the frame (task identifier) of the k-th task.
StartFrame(k) == Job.Frames[k]

\* The task whose frame is t.
TaskOfFrame(t) == CHOOSE k \in Tasks : StartFrame(k) = t

\* The farm starts a queued task once every task it depends on (by the
\* submitted FrameDependencies) is completed and a concurrency slot is free.
DependenciesMet(k) ==
    \A d \in 1..Len(Job.FrameDependencies) :
        Job.FrameDependencies[d][1] = StartFrame(k) =>
            taskStatus[TaskOfFrame(Job.FrameDependencies[d][2])] = "Completed"

SlotFree ==
    Cardinality({k \in Tasks : taskStatus[k] = "Rendering"}) < Job.ConcurrentTasks.value

StartTask(k) ==
    /\ taskStatus[k] = "Queued"
    /\ DependenciesMet(k)
    /\ SlotFree
    /\ taskStatus' = [taskStatus EXCEPT ![k] = "Rendering"]
    /\ exec' = [exec EXCEPT ![k] = [IdleExec EXCEPT !.pc = "pre"]]
    /\ UNCHANGED <<plugin, shared, scratch, requeues>>
    /\ UNCHANGED <<planVars, eventVars>>

\* The farm queues a failed task again (its own retry policy).
RequeueFailedTask(k) ==
    /\ taskStatus[k] = "Failed"
    /\ requeues < MaxRequeues
    /\ requeues' = requeues + 1
    /\ taskStatus' = [taskStatus EXCEPT ![k] = "Queued"]
    /\ exec' = [exec EXCEPT ![k] = IdleExec]
    /\ UNCHANGED <<plugin, shared, scratch>>
    /\ UNCHANGED <<planVars, eventVars>>

\* A callback raised, or the transcoder exited non-zero: the render fails
\* and no further callback of this execution runs.
FailRender(k) ==
    /\ taskStatus' = [taskStatus EXCEPT ![k] = "Failed"]

\* ------------------------------------------------------------ role of a task
\* Mutant of IsConcatPosition: every task is taken for the concat task.
IsConcatPosition_always(currentTask, numChunks) == currentTask >= 0

\* `currentTask >= numChunks`: the task is the concat task by its position.
IsConcatPosition(currentTask, numChunks) == currentTask >= numChunks

\* The role PreRenderTasks and RenderArgument act in.
RenderRole(currentTask) ==
    IF plugin.IsEncodingJob THEN "encode"
    ELSE IF plugin.IsConcatJob THEN "join"
    ELSE IF currentTask < PluginInfo.NumChunks THEN "encode"
    ELSE "join"

\* The role PostRenderTasks copies the output back in: "none" when neither
\* branch of its if / elif is taken.
CopyBackRole(currentTask) ==
    IF plugin.IsEncodingJob THEN "encode"
    ELSE IF plugin.IsConcatJob \/ currentTask >= PluginInfo.NumChunks THEN "join"
    ELSE "none"

\* GetPluginInfoEntry("ChunkStart{i}") raises when the job has no such entry.
HasChunkEntry(chunkIndex) == chunkIndex >= 0 /\ chunkIndex < PluginInfo.NumChunks

\* ----------------------------------------------------------- PreRenderTasks
\* The files CopyFilesToLocal finds for frames startFrame..endFrame.
FramesToCopy(startFrame, endFrame) ==
    {f \in shared : f[1] = "frame" /\ startFrame <= f[2] /\ f[2] <= endFrame}

\* The chunk files CopyFileToLocal is called for, as far as they exist.
ChunksToCopy ==
    {ChunkFile(i) : i \in 1..PluginInfo.NumChunks} \cap shared

\* What the staging of PreRenderTasks came to: "none" when nothing was to
\* be staged, "failed" when a copy raised or no input file was found (both
\* are only logged), "ok" otherwise.
StageOutcome(attempted, required, copied) ==
    IF ~attempted THEN "none"
    ELSE IF required = {} \/ copied # required THEN "failed"
    ELSE "ok"

\* PreRenderTasks of the k-th task.  Every single copy may fail and is then
\* only logged: `copied` are the files that arrive.
PreRenderTasks(k) ==
    LET currentTask == StartFrame(k)
        local == plugin.EnableLocalRendering
        role == RenderRole(currentTask)
        made == IF local THEN [scratch[k] EXCEPT !.exists = TRUE] ELSE scratch[k]
        raises == plugin.IsEncodingJob /\ local /\ ~HasChunkEntry(currentTask)
        attempted == local /\ (plugin.IsEncodingJob \/ plugin.IsConcatJob)
        required == IF ~attempted \/ raises THEN {}
                    ELSE IF plugin.IsEncodingJob
                    THEN FramesToCopy(PluginInfo.ChunkStart[currentTask + 1],
                                      PluginInfo.ChunkEnd[currentTask + 1])
                    ELSE {ChunkFile(i) : i \in 1..PluginInfo.NumChunks}
        wanted == IF plugin.IsEncodingJob THEN required ELSE required \cap ChunksToCopy
    IN  /\ taskStatus[k] = "Rendering"
        /\ exec[k].pc = "pre"
        /\ IF raises
           THEN /\ FailRender(k)
                /\ exec' = [exec EXCEPT ![k].pc = "failed", ![k].localRenderDir = local,
                                        ![k].preRole = role]
                /\ scratch' = [scratch EXCEPT ![k] = made]
           ELSE /\ \E copied \in SUBSET wanted :
                       /\ scratch' = [scratch EXCEPT
                                         ![k] = [made EXCEPT !.input = @ \cup copied]]
                       /\ exec' = [exec EXCEPT
                                      ![k].pc = "args", ![k].localRenderDir = local,
                                      ![k].preRole = role,
                                      ![k].stageOutcome =
                                          StageOutcome(attempted, required, copied)]
                /\ UNCHANGED taskStatus
        /\ UNCHANGED <<plugin, shared, requeues>>
        /\ UNCHANGED <<planVars, eventVars>>

\* ----------------------------------------------------------- RenderArgument
\* BuildChunkArguments(chunkIndex): -start_number and -vframes of the chunk.
BuildChunkArguments(chunkIndex) ==
    [ kind |-> "chunk",
      chunkIndex |-> chunkIndex,
      start_number |-> PluginInfo.ChunkStart[chunkIndex + 1],
      vframes |-> PluginInfo.ChunkFrames[chunkIndex + 1],
      f |-> "", cv |-> "OutputArgs", concatList |-> <<>> ]

\* RepositoryUtils.CheckPathMapping on a worker that maps drive Z: to /mnt/z.
MapPath(path) ==
    IF plugin.pathMapping /\ Len(path) > 0 /\ path[1] = "Z:"
    THEN <<"/", "mnt", "/", "z">> \o Tail(path)
    ELSE path

\* localInputDir: os.path.join(os.path.join(localPath, "Job_.._Task_.."), "input")
\* under the default LocalRenderingPath.
LocalInputDir ==
    <<"C:", "/", "DeadlineTemp", "/", "LocalRendering",
      Sep(plugin.os), "Job_Task", Sep(plugin.os), "input">>

\* The lines written to the concat list: one per chunk index, whether or
\* not the chunk file exists; a line is the chunk's directory as written
\* (ending with the separator before the file name) and the chunk's number.
ConcatListLines(outputDir, numChunks) ==
    [ i \in 1..numChunks |->
        [ path |-> ReplaceBackslashes(normpath(plugin.os, outputDir \o <<"/">>)),
          chunk |-> i ] ]

\* BuildConcatArguments(): the concat demuxer over the concat list, video
\* stream copy.
BuildConcatArguments(local) ==
    LET outputDir == IF local THEN LocalInputDir
                     ELSE MapPath(PluginInfo.OutputDirectory)
    IN  [ kind |-> "concat", chunkIndex |-> 0, start_number |-> 0, vframes |-> 0,
          f |-> "concat", cv |-> "copy",
          concatList |-> ConcatListLines(outputDir, PluginInfo.NumChunks) ]

\* RenderArgument of the k-th task; BuildConcatArguments writes the concat
\* list into the directory it reads the chunks from.
RenderArgument(k) ==
    LET currentTask == StartFrame(k)
        role == RenderRole(currentTask)
    IN  /\ taskStatus[k] = "Rendering"
        /\ exec[k].pc = "args"
        /\ IF role = "encode"
           THEN IF HasChunkEntry(currentTask)
                THEN /\ exec' = [exec EXCEPT ![k].pc = "running", ![k].renderRole = role,
                                             ![k].args = BuildChunkArguments(currentTask)]
                     /\ UNCHANGED <<taskStatus, shared, scratch>>
                ELSE /\ FailRender(k)
                     /\ exec' = [exec EXCEPT ![k].pc = "failed", ![k].renderRole = role]
                     /\ UNCHANGED <<shared, scratch>>
           ELSE /\ exec' = [exec EXCEPT ![k].pc = "running", ![k].renderRole = role,
                                        ![k].args = BuildConcatArguments(exec[k].localRenderDir)]
                /\ IF exec[k].localRenderDir
                   THEN /\ scratch' = [scratch EXCEPT ![k].input = @ \cup {ConcatList}]
                        /\ UNCHANGED shared
                   ELSE /\ shared' = shared \cup {ConcatList}
                        /\ UNCHANGED scratch
                /\ UNCHANGED taskStatus
        /\ UNCHANGED <<plugin, requeues>>
        /\ UNCHANGED <<planVars, eventVars>>

\* ------------------------------------------------------------ the transcoder
\* The directory the transcoder reads its input from.
InputDir(k) == IF exec[k].localRenderDir THEN scratch[k].input ELSE shared

\* The transcoder can succeed only when what it is told to read is there:
\* the first frame of the chunk, or every chunk listed in the concat list.
InputsPresent(k) ==
    IF exec[k].args.kind = "chunk"
    THEN FrameFile(exec[k].args.start_number) \in InputDir(k)
    ELSE \A i \in 1..PluginInfo.NumChunks : ChunkFile(i) \in InputDir(k)

\* The file a successful run writes.
Produced(k) ==
    IF exec[k].args.kind = "chunk"
    THEN ChunkFile(exec[k].args.chunkIndex + 1)
    ELSE FinalOutput

\* The transcoder process exits with status 0; `wrote` tells whether it
\* left its output file behind.
TranscoderExitsZero(k, wrote) ==
    /\ taskStatus[k] = "Rendering"
    /\ exec[k].pc = "running"
    /\ exec' = [exec EXCEPT ![k].pc = "post", ![k].exitCode = "zero",
                            ![k].invocations = @ + 1]
    /\ IF ~wrote THEN UNCHANGED <<shared, scratch>>
       ELSE IF exec[k].localRenderDir
       THEN /\ scratch' = [scratch EXCEPT ![k].output = @ \cup {Produced(k)}]
            /\ UNCHANGED shared
       ELSE /\ shared' = shared \cup {Produced(k)}
            /\ UNCHANGED scratch
    /\ UNCHANGED <<plugin, taskStatus, requeues>>
    /\ UNCHANGED <<planVars, eventVars>>

\* A transcoder that finds what it is told to read exits with status 0,
\* having written its output.
TranscoderSucceeds(k) == InputsPresent(k) /\ TranscoderExitsZero(k, TRUE)

\* The transcoder exits with a non-zero status.  The worker fails the render
\* unless the plugin registered its own check of the exit code.
TranscoderFails(k) ==
    /\ taskStatus[k] = "Rendering"
    /\ exec[k].pc = "running"
    /\ IF "CheckExitCode" \in RegisteredCallbacks
       THEN /\ exec' = [exec EXCEPT ![k].pc = "post", ![k].exitCode = "nonzero",
                                    ![k].invocations = @ + 1]
            /\ UNCHANGED taskStatus
       ELSE /\ exec' = [exec EXCEPT ![k].pc = "failed", ![k].exitCode = "nonzero",
                                    ![k].invocations = @ + 1]
            /\ FailRender(k)
    /\ UNCHANGED <<plugin, shared, scratch, requeues>>
    /\ UNCHANGED <<planVars, eventVars>>

\* ---------------------------------------------------------- PostRenderTasks
\* The file PostRenderTasks copies back for a role.
CopyBackFile(role, currentTask) ==
    IF role = "encode" THEN ChunkFile(currentTask + 1) ELSE FinalOutput

\* Mutant of KeepChunksSet: the entry is compared without .lower().
KeepChunksSet_caseSensitive == PluginInfo.KeepChunks = "true"

\* KeepChunks entry .lower() == "true"
KeepChunksSet == PluginInfo.KeepChunks \in {"True", "true", "TRUE"}

\* What the copy-back of PostRenderTasks came to: "none" when no branch of
\* its if / elif was taken, "missing" when the local file was not found,
\* "failed" when CopyFileFromLocal caught an exception (both only logged).
CopyBackOutcome(role, found, copyFails) ==
    IF role = "none" THEN "none"
    ELSE IF ~found THEN "missing"
    ELSE IF copyFails THEN "failed"
    ELSE "copied"

\* Mutant of StagedBackPc: a copy-back that did not arrive fails the task.
StagedBackPc_failOnError(outcome, cleans) ==
    IF outcome \in {"missing", "failed"} THEN "failed"
    ELSE IF cleans THEN "cleanup"
    ELSE "done"

\* Where PostRenderTasks goes on after the copy-back, whatever its outcome:
\* into the chunk cleanup, or to its end.
StagedBackPc(outcome, cleans) == IF cleans THEN "cleanup" ELSE "done"

\* The farm's status of a task whose PostRenderTasks is at `pc`.
StatusAt(pc, status) ==
    IF pc = "done" THEN "Completed"
    ELSE IF pc = "failed" THEN "Failed"
    ELSE status

\* What CleanupLocalFiles came to: "none" when it was not called or found no
\* directory, "raised" when shutil.rmtree raised (only logged), "removed"
\* otherwise.
RemovalOutcome(called, rmtreeFails) ==
    IF ~called THEN "none"
    ELSE IF rmtreeFails THEN "raised"
    ELSE "removed"

\* PostRenderTasks of the k-th task up to the chunk cleanup: copy the output
\* back (a failed copy is only logged), remove the local directory (a failed
\* removal is only logged), then start the cleanup or finish.
PostRenderTasks(k) ==
    LET currentTask == StartFrame(k)
        numChunks == PluginInfo.NumChunks
        local == exec[k].localRenderDir /\ plugin.EnableLocalRendering
        removes == local /\ plugin.CleanupLocalFiles /\ scratch[k].exists
        role == IF local THEN CopyBackRole(currentTask) ELSE "none"
        file == CopyBackFile(role, currentTask)
        found == role # "none" /\ file \in scratch[k].output
        concatTask == IsConcatPosition(currentTask, numChunks)
        cleans == concatTask /\ ~KeepChunksSet
    IN  /\ taskStatus[k] = "Rendering"
        /\ exec[k].pc = "post"
        /\ \E copyFails \in BOOLEAN, rmtreeFails \in BOOLEAN :
              LET outcome == CopyBackOutcome(role, found, copyFails)
                  removal == RemovalOutcome(removes, rmtreeFails)
                  pc == StagedBackPc(outcome, cleans)
              IN  /\ shared' = IF outcome = "copied" THEN shared \cup {file} ELSE shared
                  /\ scratch' = IF removal = "removed"
                                 THEN [scratch EXCEPT ![k] = NoScratch]
                                 ELSE scratch
                  /\ exec' = [exec EXCEPT
                                 ![k].pc = pc,
                                 ![k].copyRole = role,
                                 ![k].copyOutcome = outcome,
                                 ![k].removal = removal,
                                 ![k].cleanupRole = IF concatTask THEN "join" ELSE "encode",
                                 ![k].chunk = 0, ![k].attempt = 0,
                                 ![k].lastDelay = IF pc = "cleanup" THEN InitialGrace ELSE 0,
                                 ![k].failed_chunks = <<>>]
                  /\ taskStatus' = [taskStatus EXCEPT ![k] = StatusAt(pc, @)]
        /\ UNCHANGED <<plugin, requeues>>
        /\ UNCHANGED <<planVars, eventVars>>

\* Mutant of AfterChunk: a chunk that could not be deleted ends the chunk
\* loop, the chunks after it are not attempted.
AfterChunk_stopAtFailure(e, i, failed) ==
    [e EXCEPT !.chunk = i + 1, !.attempt = 0, !.lastDelay = 0, !.failed_chunks = failed,
              !.pc = IF i + 1 < PluginInfo.NumChunks /\ failed = e.failed_chunks
                     THEN "cleanup" ELSE "concatlist"]

\* Mutant of AfterChunk: a chunk that could not be deleted makes
\* PostRenderTasks raise.
AfterChunk_raise(e, i, failed) ==
    [e EXCEPT !.chunk = i + 1, !.attempt = 0, !.lastDelay = 0, !.failed_chunks = failed,
              !.pc = IF failed # e.failed_chunks THEN "failed"
                     ELSE IF i + 1 < PluginInfo.NumChunks THEN "cleanup" ELSE "concatlist"]

\* After chunk i (0-based) of the cleanup loop: the next chunk, or the
\* concat list once every chunk has had its turn.
AfterChunk(e, i, failed) ==
    [e EXCEPT !.chunk = i + 1, !.attempt = 0, !.lastDelay = 0, !.failed_chunks = failed,
              !.pc = IF i + 1 < PluginInfo.NumChunks THEN "cleanup" ELSE "concatlist"]

\* Two paths name the same place when they differ in the kind of their
\* separators only.
SamePlace(p, q) ==
    /\ Len(p) = Len(q)
    /\ \A j \in 1..Len(p) : p[j] = q[j] \/ {p[j], q[j]} \subseteq {"/", "\\"}

\* The cleanup looks for the chunks under os.path.normpath(OutputDirectory),
\* the path as submitted; the worker reaches the chunks under the mapped
\* path.  The cleanup finds a file only where the two name the same place.
CleanupReaches ==
    SamePlace(normpath(plugin.os, PluginInfo.OutputDirectory),
              MapPath(PluginInfo.OutputDirectory))

\* Mutant of ChunkAlreadyRemoved: os.remove is called on a missing file too.
ChunkAlreadyRemoved_never(chunkFile) == chunkFile \in {}

\* `not os.path.exists(chunkFile)`: the file is taken for deleted.
ChunkAlreadyRemoved(chunkFile) == ~CleanupReaches \/ chunkFile \notin shared

\* Mutant of RetryDelay: the delay keeps doubling.
RetryDelay_uncapped(attempt) == 2 ^ (attempt + 1)

\* delay = min(2 ** (attempt + 1), 10), attempt counted from 0
RetryDelay(attempt) == Min2(2 ^ (attempt + 1), MaxDelay)

\* One pass of the retry loop for chunk exec[k].chunk: the file is gone
\* already, or os.remove deletes it, or os.remove raises; after a raise the
\* loop sleeps and tries again, or gives the chunk up on the last attempt.
DeleteChunkAttempt(k) ==
    LET i == exec[k].chunk
        attempt == exec[k].attempt
        chunkFile == ChunkFile(i + 1)
    IN  /\ taskStatus[k] = "Rendering"
        /\ exec[k].pc = "cleanup"
        /\ IF ChunkAlreadyRemoved(chunkFile)
           THEN /\ exec' = [exec EXCEPT ![k] = AfterChunk(@, i, @.failed_chunks)]
                /\ UNCHANGED shared
           ELSE \/ /\ shared' = shared \ {chunkFile}
                   /\ exec' = [exec EXCEPT ![k] = AfterChunk(@, i, @.failed_chunks)]
                \/ /\ UNCHANGED shared
                   /\ IF attempt < max_retries - 1
                      THEN exec' = [exec EXCEPT ![k].attempt = attempt + 1,
                                                ![k].lastDelay = RetryDelay(attempt)]
                      ELSE exec' = [exec EXCEPT
                                       ![k] = AfterChunk(@, i, Append(@.failed_chunks, i + 1))]
        /\ taskStatus' = [taskStatus EXCEPT ![k] = StatusAt(exec'[k].pc, @)]
        /\ UNCHANGED <<plugin, scratch, requeues>>
        /\ UNCHANGED <<planVars, eventVars>>

\* One pass of the loop that deletes the concat list; PostRenderTasks
\* returns after it and the task is completed.
DeleteConcatListAttempt(k) ==
    LET attempt == exec[k].attempt
        finished == /\ exec' = [exec EXCEPT ![k].pc = "done"]
                    /\ taskStatus' = [taskStatus EXCEPT ![k] = "Completed"]
    IN  /\ taskStatus[k] = "Rendering"
        /\ exec[k].pc = "concatlist"
        /\ IF ~CleanupReaches \/ ConcatList \notin shared
           THEN finished /\ UNCHANGED shared
           ELSE \/ shared' = shared \ {ConcatList} /\ finished
                \/ /\ UNCHANGED shared
                   /\ IF attempt < concat_list_retries - 1
                      THEN /\ exec' = [exec EXCEPT ![k].attempt = attempt + 1]
                           /\ UNCHANGED taskStatus
                      ELSE finished
        /\ UNCHANGED <<plugin, scratch, requeues>>
        /\ UNCHANGED <<planVars, eventVars>>

\* ------------------------------------------------------ the task job's run
ExecFrameLists == {Range(1, n) : n \in 2..MaxExecFrames} \cup {<<1, 3, 5, 7>>}

Plugins ==
    { [DefaultPlugin EXCEPT !.EnableLocalRendering = l, !.CleanupLocalFiles = c,
                            !.IsEncodingJob = e, !.IsConcatJob = j] :
        l \in BOOLEAN, c \in BOOLEAN, e \in BOOLEAN, j \in BOOLEAN }

Init ==
    /\ event \in {[DefaultEvent EXCEPT !.JobFramesList = f] : f \in ExecFrameLists}
    /\ config \in {[DefaultConfig EXCEPT !.MinChunks = 1, !.KeepChunks = kc] :
                      kc \in BOOLEAN}
    /\ plugin \in Plugins
    /\ submitted = <<>>
    /\ eventPc = "pending"
    /\ InitFarm(event)
    /\ planArgs = [frameList |-> <<>>, chunkSize |-> 1, minChunks |-> 1]
    /\ planResult = None
    /\ planPc = "done"

\* Each step of the run is taken by some task of the job.
SomeStartTask == \E k \in Tasks : StartTask(k)

SomePreRenderTasks == \E k \in Tasks : PreRenderTasks(k)

SomeRenderArgument == \E k \in Tasks : RenderArgument(k)

SomeTranscoderSucceeds == \E k \in Tasks : TranscoderSucceeds(k)

SomeTranscoderFails == \E k \in Tasks : TranscoderFails(k)

SomePostRenderTasks == \E k \in Tasks : PostRenderTasks(k)

SomeDeleteChunkAttempt == \E k \in Tasks : DeleteChunkAttempt(k)

SomeDeleteConcatListAttempt == \E k \in Tasks : DeleteConcatListAttempt(k)

SomeRequeueFailedTask == \E k \in Tasks : RequeueFailedTask(k)

Next ==
    \/ OnJobFinished
    \/ SomeStartTask
    \/ SomePreRenderTasks
    \/ SomeRenderArgument
    \/ SomeTranscoderSucceeds
    \/ SomeTranscoderFails
    \/ SomePostRenderTasks
    \/ SomeDeleteChunkAttempt
    \/ SomeDeleteConcatListAttempt
    \/ SomeRequeueFailedTask

Spec == Init /\ [][Next]_vars

\* --------------------------------------------- one task execution on its own
\* Workers of either operating system, with and without a mapping of Z:.
ExecPlugins ==
    { [pl EXCEPT !.os = o, !.pathMapping = m] :
        pl \in Plugins, o \in {"nt", "posix"}, m \in BOOLEAN }

\* The chunk files of a job of numChunks chunks.
ChunkFiles(numChunks) == {ChunkFile(i) : i \in 1..numChunks}

\* The job has been submitted and the farm hands one of its tasks to a
\* worker: an encode task, or the join task after every encode task was
\* completed, with any of the chunk files on shared storage.
InitExec ==
    /\ event \in {[DefaultEvent EXCEPT !.JobFramesList = f] : f \in ExecFrameLists}
    /\ config \in {[DefaultConfig EXCEPT !.MinChunks = 1, !.KeepChunks = kc] :
                      kc \in BOOLEAN}
    /\ plugin \in ExecPlugins
    /\ submitted = JobsToSubmit(event, config)
    /\ eventPc = "returned"
    /\ \E k \in 1..Len(submitted[1].Frames) :
          LET tasks == 1..Len(submitted[1].Frames)
              numChunks == submitted[1].pluginInfo.NumChunks
              isJoin == k = numChunks + 1
              frames == {FrameFile(f) : f \in Elems(event.JobFramesList)}
          IN  /\ taskStatus = [j \in tasks |-> IF j = k THEN "Rendering"
                                                ELSE IF isJoin THEN "Completed"
                                                ELSE "Queued"]
              /\ exec = [j \in tasks |-> IF j = k THEN [IdleExec EXCEPT !.pc = "pre"]
                                          ELSE IdleExec]
              /\ scratch = [j \in tasks |-> NoScratch]
              /\ shared \in IF isJoin
                             THEN {frames \cup C : C \in SUBSET ChunkFiles(numChunks)}
                             ELSE {frames}
    /\ requeues = 0
    /\ planArgs = [frameList |-> <<>>, chunkSize |-> 1, minChunks |-> 1]
    /\ planResult = None
    /\ planPc = "done"

\* No chunk file and no concat list is left on shared storage.
LedgerGone == \A f \in shared : f[1] \notin {"chunk", "concat"}

\* PostRenderTasks of the join task is entered once more after a run whose
\* cleanup left no chunk file and no concat list behind.
PostRenderTasksAgain(k) ==
    /\ taskStatus[k] = "Completed"
    /\ exec[k].pc = "done"
    /\ exec[k].cleanupRole = "join"
    /\ ~KeepChunksSet
    /\ LedgerGone
    /\ requeues < MaxRequeues
    /\ requeues' = requeues + 1
    /\ taskStatus' = [taskStatus EXCEPT ![k] = "Rendering"]
    /\ exec' = [exec EXCEPT ![k].pc = "post"]
    /\ UNCHANGED <<plugin, shared, scratch>>
    /\ UNCHANGED <<planVars, eventVars>>

\* The transcoder as the black box it is to the plugin: it may exit with
\* status 0 whatever it was given, with or without an output file.
SomeTranscoderExitsZero ==
    \E k \in Tasks : \E wrote \in BOOLEAN : TranscoderExitsZero(k, wrote)

SomePostRenderTasksAgain == \E k \in Tasks : PostRenderTasksAgain(k)

NextExec ==
    \/ SomePreRenderTasks
    \/ SomeRenderArgument
    \/ SomeTranscoderExitsZero
    \/ SomeTranscoderFails
    \/ SomePostRenderTasks
    \/ SomeDeleteChunkAttempt
    \/ SomeDeleteConcatListAttempt
    \/ SomePostRenderTasksAgain

SpecExec == InitExec /\ [][NextExec]_vars

\* ================================================================= claims
\* ------------------------------------------------------ calculateChunks
PlanReturned == planPc = "done" /\ ~planResult.isNone

\* The frames of F that lie in the (start, end) range r.
FramesIn(F, r) == {f \in F : r[1] <= f /\ f <= r[2]}

\* ceil(a / b) for a >= 0, b >= 1, by its defining property.
Ceil(a, b) == CHOOSE q \in 0..a : q * b >= a /\ (q - 1) * b < a

\* C1: whenever calculateChunks returns a plan for a non-empty list of
\* distinct frame numbers, the ranges are strictly ascending and disjoint,
\* start and end of every range are frames of the input, and every input
\* frame lies in exactly one range.
C1_PlanPartitionsFrames ==
    PlanReturned =>
        LET r == planResult.ranges
            F == Elems(planArgs.frameList)
        IN  /\ \A k \in 1..Len(r) :
                   r[k][1] \in F /\ r[k][2] \in F /\ r[k][1] <= r[k][2]
            /\ \A k \in 1..(Len(r) - 1) : r[k][2] < r[k + 1][1]
            /\ \A f \in F : Cardinality({k \in 1..Len(r) : f \in FramesIn(F, r[k])}) = 1

\* A plan of several chunks over sparse frame numbers given in descending order.
C1_Witness ==
    /\ PlanReturned
    /\ Len(planResult.ranges) >= 2
    /\ planArgs.frameList = <<7, 5, 3, 1>>

\* C2: calculateChunks returns None exactly when len(F) < c * m.
C2_NoneIffTooShort ==
    planPc = "done" =>
        (planResult.isNone <=>
            Len(planArgs.frameList) < planArgs.chunkSize * planArgs.minChunks)

\* A list of exactly c * m frames (c, m > 1) for which a plan is returned.
C2_Witness ==
    /\ PlanReturned
    /\ planArgs.chunkSize = 2 /\ planArgs.minChunks = 3
    /\ Len(planArgs.frameList) = 6

\* C3: a returned plan has exactly max(minChunks, ceil(T / chunkSize))
\* ranges; each but the last covers ceil(T / numChunks) entries of the frame
\* list, the last between 1 and that many; frames 1..400 with chunkSize 150
\* and minChunks 2 give (1,134), (135,268), (269,400).
C3_ChunkCountAndSizes ==
    PlanReturned =>
        LET r == planResult.ranges
            F == Elems(planArgs.frameList)
            T == Len(planArgs.frameList)
            n == Max2(planArgs.minChunks, Ceil(T, planArgs.chunkSize))
            size == Ceil(T, n)
        IN  /\ Len(r) = n
            /\ \A k \in 1..(Len(r) - 1) : Cardinality(FramesIn(F, r[k])) = size
            /\ Len(r) >= 1 =>
                   /\ Cardinality(FramesIn(F, r[Len(r)])) >= 1
                   /\ Cardinality(FramesIn(F, r[Len(r)])) <= size
            /\ (planArgs.frameList = Range(1, 400) /\ planArgs.chunkSize = 150
                    /\ planArgs.minChunks = 2)
                   => r = << <<1, 134>>, <<135, 268>>, <<269, 400>> >>

\* The 400-frame scenario has been planned, with a shorter last chunk.
C3_Witness ==
    /\ PlanReturned
    /\ Len(planArgs.frameList) = 400
    /\ Len(planResult.ranges) = 3
    /\ planResult.ranges[3][2] - planResult.ranges[3][1] + 1 = 132

\* -------------------------------------------------------- OnJobFinished
\* The task job OnJobFinished has submitted, when it submitted one.
TaskJobSubmitted ==
    /\ eventPc = "returned"
    /\ Len(submitted) >= 1
    /\ submitted[1].Plugin = "AutoFFmpegTask"

\* The plan the submitted job was built from.
EventPlan == calculateChunks(event.JobFramesList, config.ChunkSize, config.MinChunks)

\* The concurrency the configuration asks for.
Requested == GetConfigEntryWithDefault(config.ConcurrentTasks, DefaultConcurrentTasks)

\* The ceiling of the job's codec, Absent when the codec has none.
Ceiling == MaxForCodec(event.codec, config.EnableGPU, config)

\* C4: the frame count handed to each encode task (ChunkFrames{i}, the
\* -vframes value) equals the number of input frames that belong to chunk i,
\* so the counts of all chunks sum to the number of input frames.
C4_ChunkFramesCountInputFrames ==
    TaskJobSubmitted =>
        LET pi == submitted[1].pluginInfo
            F == Elems(event.JobFramesList)
        IN  \A k \in 1..pi.NumChunks :
                pi.ChunkFrames[k] =
                    Cardinality(FramesIn(F, <<pi.ChunkStart[k], pi.ChunkEnd[k]>>))

\* C5: the submitted ConcurrentTasks never exceeds the request, and equals
\* it when the codec has no ceiling or the request does not exceed the ceiling.
C5_CapNeverRaises ==
    TaskJobSubmitted =>
        LET sent == submitted[1].ConcurrentTasks
        IN  /\ sent.set
            /\ sent.value <= Requested
            /\ (~Ceiling.set \/ Requested <= Ceiling.value) => sent.value = Requested

\* A request of 4 for h264 on GPU under a ceiling of 2 was lowered to 2.
C5_Witness ==
    /\ TaskJobSubmitted
    /\ event.codec = "h264" /\ config.EnableGPU
    /\ config.ConcurrentTasks = Entry(4)
    /\ config.H264MaxConcurrentTasks = Entry(2)
    /\ submitted[1].ConcurrentTasks = Entry(2)

\* C6: whenever the job's codec has a ceiling, whatever its integer value,
\* the submitted ConcurrentTasks does not exceed it.
C6_NeverExceedsCeiling ==
    TaskJobSubmitted =>
        (Ceiling.set => submitted[1].ConcurrentTasks.value <= Ceiling.value)

\* C7: for a plan of N >= 1 chunks exactly one job is submitted; its task
\* identifiers are exactly 0..N and its dependency list is exactly the N
\* edges (N, i), i in 0..N-1, each once.
C7_TasksAndDependencies ==
    TaskJobSubmitted =>
        LET j == submitted[1]
            N == Len(EventPlan.ranges)
        IN  /\ Len(submitted) = 1
            /\ N >= 1
            /\ Len(j.Frames) = N + 1
            /\ Elems(j.Frames) = 0..N
            /\ Len(j.FrameDependencies) = N
            /\ Elems(j.FrameDependencies) = {<<N, i>> : i \in 0..(N - 1)}

\* A task job for a plan of three chunks has been submitted.
C7_Witness ==
    /\ TaskJobSubmitted
    /\ Len(EventPlan.ranges) = 3
    /\ submitted[1].FrameDependencies = << <<3, 0>>, <<3, 1>>, <<3, 2>> >>

\* ------------------------------------------------------- the task job's run
\* The role a task has by its position: encode below NumChunks, join otherwise.
PositionRole(k) == IF StartFrame(k) < PluginInfo.NumChunks THEN "encode" ELSE "join"

EncodeTasks == {k \in Tasks : PositionRole(k) = "encode"}

JoinTasks == {k \in Tasks : PositionRole(k) = "join"}

AllEncodesCompleted == \A j \in EncodeTasks : taskStatus[j] = "Completed"

\* C8: under a farm that honours the submitted dependency edges the join
\* task is started only when every encode task is completed, and while some
\* encode task is not completed there is no final output.
C8_JoinWaitsForEncodes ==
    /\ [](\A k \in JoinTasks :
              (taskStatus[k] # "Queued" \/ FinalOutput \in shared) => AllEncodesCompleted)
    /\ [][\A k \in JoinTasks :
              (taskStatus[k] = "Queued" /\ taskStatus'[k] = "Rendering")
                  => AllEncodesCompleted]_vars

\* The join of a three-chunk job has run to completion after the farm had
\* to queue a failed task again.
C8_Witness ==
    /\ Tasks # {}
    /\ PluginInfo.NumChunks = 3
    /\ requeues = 1
    /\ \A k \in Tasks : taskStatus[k] = "Completed"
    /\ FinalOutput \in shared

\* C9: in every task execution each phase that has run (staging in
\* PreRenderTasks, RenderArgument, copy-back and cleanup in PostRenderTasks)
\* acted in the role given by the task's position, whatever IsEncodingJob
\* and IsConcatJob say.
C9_RoleByPosition ==
    \A k \in Tasks :
        /\ exec[k].preRole \in {"none", PositionRole(k)}
        /\ exec[k].renderRole \in {"none", PositionRole(k)}
        /\ exec[k].copyRole \in {"none", PositionRole(k)}
        /\ exec[k].cleanupRole \in {"none", PositionRole(k)}

\* The chunk files and concat lists a step removes from shared storage.
LedgerFilesDeleted == {f \in shared \ shared' : f[1] \in {"chunk", "concat"}}

\* The tasks whose plugin execution a step advances.
ActingTasks == {k \in Tasks : exec'[k] # exec[k]}

\* C10: a chunk file or the concat list is removed from shared storage only
\* by the join task, in the cleanup that follows its own transcoder's exit
\* with status 0; no encode task removes one.
C10_DeletionOnlyAfterJoinSucceeded ==
    [][LedgerFilesDeleted # {} =>
          \E k \in ActingTasks :
              /\ PositionRole(k) = "join"
              /\ exec[k].exitCode = "zero"
              /\ exec[k].pc \in {"cleanup", "concatlist"}]_vars

\* The join task, after its transcoder succeeded on shared storage, has
\* deleted the first chunk file and is about to turn to the second.
C10_Witness ==
    /\ Tasks # {}
    /\ ~plugin.EnableLocalRendering
    /\ PluginInfo.NumChunks >= 2
    /\ \E k \in JoinTasks :
          /\ exec[k].pc = "cleanup" /\ exec[k].chunk = 1
          /\ exec[k].exitCode = "zero"
    /\ ChunkFile(1) \notin shared
    /\ ChunkFile(2) \in shared
    /\ FinalOutput \in shared

\* ------------------------------------------------------------ chunk cleanup
\* The tasks whose PostRenderTasks has entered the chunk cleanup.
CleanupRan(k) ==
    /\ exec[k].cleanupRole = "join"
    /\ ~KeepChunksSet
    /\ exec[k].pc \in {"cleanup", "concatlist", "done"}

\* The chunk numbers (1-based) the cleanup loop of task k is through with.
Handled(k) ==
    IF exec[k].pc = "cleanup" THEN 1..exec[k].chunk ELSE 1..PluginInfo.NumChunks

\* C11: the cleanup treats each chunk on its own.  Of the chunks the loop is
\* through with, exactly those whose deletion raised on every attempt are
\* in the failed list (each once, in chunk order) and are still on shared
\* storage, every other one that the cleanup's path reaches is gone; the
\* loop goes through every chunk
\* whatever failed before, and leaves only for the deletion of the concat
\* list, which is the only way PostRenderTasks then ends.
C11_ChunksCleanedIndependently ==
    /\ [](\A k \in Tasks : CleanupRan(k) =>
            LET failed == exec[k].failed_chunks
            IN  /\ \A a \in 1..(Len(failed) - 1) : failed[a] < failed[a + 1]
                /\ Elems(failed) \subseteq Handled(k)
                /\ \A i \in Handled(k) :
                       i \in Elems(failed) <=> (CleanupReaches /\ ChunkFile(i) \in shared))
    /\ [][\A k \in Tasks :
              /\ (exec[k].pc = "cleanup" /\ exec'[k].pc # "cleanup")
                     => /\ exec'[k].pc = "concatlist"
                        /\ exec[k].chunk = PluginInfo.NumChunks - 1
              /\ (exec[k].pc # "done" /\ exec'[k].pc = "done" /\ CleanupRan(k))
                     => exec[k].pc = "concatlist"]_vars

\* Three chunks, the second one failing on every attempt: chunks 1 and 3
\* are deleted, only chunk 2 is in the failed list, and PostRenderTasks has
\* ended after the deletion of the concat list.
C11_Witness ==
    /\ Tasks # {}
    /\ PluginInfo.NumChunks = 3
    /\ \E k \in JoinTasks :
          /\ exec[k].pc = "done"
          /\ exec[k].failed_chunks = <<2>>
    /\ ChunkFile(1) \notin shared
    /\ ChunkFile(2) \in shared
    /\ ChunkFile(3) \notin shared
    /\ ConcatList \notin shared

\* C12: a cleanup that runs again after a run that left no chunk file and
\* no concat list behind deletes nothing, takes every chunk for removed at
\* the first attempt, records no failed chunk and does not fail.
C12_CleanupIdempotent ==
    /\ [](requeues >= 1 =>
            /\ LedgerGone
            /\ \A k \in Tasks : CleanupRan(k) =>
                   /\ exec[k].failed_chunks = <<>>
                   /\ exec[k].attempt = 0
                   /\ taskStatus[k] \in {"Rendering", "Completed"})
    /\ [][requeues >= 1 =>
            /\ LedgerFilesDeleted = {}
            /\ \A k \in Tasks :
                   (exec[k].pc = "cleanup" /\ exec'[k] # exec[k])
                       => exec'[k].chunk = exec[k].chunk + 1]_vars

\* The second cleanup over three chunks has ended without a failed chunk.
C12_Witness ==
    /\ Tasks # {}
    /\ requeues = 1
    /\ PluginInfo.NumChunks = 3
    /\ LedgerGone
    /\ \E k \in JoinTasks :
          /\ exec[k].pc = "done"
          /\ taskStatus[k] = "Completed"
          /\ exec[k].failed_chunks = <<>>

\* C13: whatever deletions raised, PostRenderTasks of the join task goes on
\* to its end and the task is completed: once the join task's transcoder
\* has exited with status 0 and the cleanup has begun, the task is never
\* failed, and it is completed when PostRenderTasks has ended.
C13_CleanupNeverFailsTask ==
    \A k \in Tasks : (exec[k].cleanupRole = "join" /\ ~KeepChunksSet) =>
        /\ exec[k].exitCode = "zero"
        /\ exec[k].pc \in {"post", "cleanup", "concatlist", "done"}
        /\ taskStatus[k] = IF exec[k].pc = "done" THEN "Completed" ELSE "Rendering"

\* Every chunk of a three-chunk job failed on every attempt and the concat
\* list could not be deleted either: the join task is completed.
C13_Witness ==
    /\ Tasks # {}
    /\ PluginInfo.NumChunks = 3
    /\ \E k \in JoinTasks :
          /\ taskStatus[k] = "Completed"
          /\ exec[k].failed_chunks = <<1, 2, 3>>
          /\ exec[k].attempt = 2
    /\ ConcatList \in shared
    /\ ChunkFiles(3) \subseteq shared

\* The wait the claim states after the a-th failed attempt, a in 1..14.
ClaimedDelay(a) == IF a = 1 THEN 2 ELSE IF a = 2 THEN 4 ELSE IF a = 3 THEN 8 ELSE 10

\* C14: the cleanup is bounded.  A chunk gets at most 15 attempts, the wait
\* after the a-th failed attempt (a = 1..14) is min(2^a, 10) seconds and
\* never decreases, there is no wait after the 15th; a chunk is recorded as
\* failed exactly when its 15th attempt raised; every pass of the loop moves
\* on to the next attempt or the next chunk; the concat list gets at most 3
\* attempts.
C14_BoundedRetries ==
    /\ [](\A k \in Tasks :
            /\ exec[k].pc = "cleanup" =>
                   /\ exec[k].attempt \in 0..14
                   /\ exec[k].chunk \in 0..(PluginInfo.NumChunks - 1)
                   /\ exec[k].attempt >= 1 =>
                          exec[k].lastDelay = ClaimedDelay(exec[k].attempt)
            /\ exec[k].pc = "concatlist" => exec[k].attempt \in 0..2)
    /\ [][\A k \in Tasks : (exec[k].pc = "cleanup" /\ exec'[k] # exec[k]) =>
            LET raised15 == /\ exec[k].attempt = 14
                            /\ ChunkFile(exec[k].chunk + 1) \in shared'
            IN  /\ exec'[k].failed_chunks # exec[k].failed_chunks <=> raised15
                /\ raised15 =>
                       /\ exec'[k].failed_chunks =
                              Append(exec[k].failed_chunks, exec[k].chunk + 1)
                       /\ exec'[k].lastDelay = 0
                /\ \/ /\ exec'[k].chunk = exec[k].chunk + 1
                      /\ exec'[k].attempt = 0
                   \/ /\ exec'[k].pc = "cleanup"
                      /\ exec'[k].chunk = exec[k].chunk
                      /\ exec'[k].attempt = exec[k].attempt + 1
                      /\ exec[k].attempt >= 1 => exec'[k].lastDelay >= exec[k].lastDelay]_vars

\* The first chunk was given up after 15 attempts and the second chunk has
\* failed 14 times, the last wait being the 10-second ceiling.
C14_Witness ==
    /\ Tasks # {}
    /\ \E k \in JoinTasks :
          /\ exec[k].pc = "cleanup"
          /\ exec[k].failed_chunks = <<1>>
          /\ exec[k].chunk = 1
          /\ exec[k].attempt = 14
          /\ exec[k].lastDelay = 10

\* ------------------------------------------------------- one task execution
\* The tasks whose RenderArgument has returned arguments of the join.
ConcatInvoked == {k \in Tasks : exec[k].args.kind = "concat"}

\* The directory the join reads the chunks from, as the worker reaches it.
ChunkDirectory(k) ==
    IF exec[k].localRenderDir THEN LocalInputDir
    ELSE MapPath(PluginInfo.OutputDirectory)

\* C15: the concat list the join writes for N chunks has exactly N lines;
\* line i names chunk i in the directory the chunks are read from, with
\* forward slashes only, whether or not the chunk file is there; the
\* transcoder is given the concat demuxer and video stream copy.
C15_ConcatListAndArguments ==
    \A k \in ConcatInvoked :
        LET lines == exec[k].args.concatList
        IN  /\ Len(lines) = PluginInfo.NumChunks
            /\ \A i \in 1..Len(lines) :
                   /\ lines[i].chunk = i
                   /\ "\\" \notin Elems(lines[i].path)
                   /\ SamePlace(lines[i].path, ChunkDirectory(k) \o <<"/">>)
            /\ exec[k].args.f = "concat"
            /\ exec[k].args.cv = "copy"

\* The join of a three-chunk job on a Windows worker, reading from shared
\* storage with the second chunk file missing, has its three lines.
C15_Witness ==
    /\ Tasks # {}
    /\ PluginInfo.NumChunks = 3
    /\ plugin.os = "nt"
    /\ ChunkFile(2) \notin shared
    /\ \E k \in ConcatInvoked \cap JoinTasks :
          /\ ~exec[k].localRenderDir
          /\ exec[k].pc = "running"
          /\ Len(exec[k].args.concatList) = 3
          /\ exec[k].args.concatList[3].path = <<"Z:", "/", "out", "/">>

\* C16: in every task execution the transcoder runs at most once, and when
\* it exits with a non-zero status the execution ends there: the task is
\* failed (until the farm queues it again), nothing is copied back and no
\* cleanup is entered.
C16_TranscoderFailureFailsTask ==
    \A k \in Tasks :
        /\ exec[k].invocations <= 1
        /\ exec[k].exitCode = "nonzero" =>
               /\ exec[k].invocations = 1
               /\ exec[k].pc = "failed"
               /\ taskStatus[k] = "Failed"
               /\ exec[k].copyRole = "none"
               /\ exec[k].copyOutcome = "none"
               /\ exec[k].cleanupRole = "none"

\* The transcoder of the join task exited non-zero: the task is failed and
\* every chunk file is still on shared storage.
C16_Witness ==
    /\ Tasks # {}
    /\ PluginInfo.NumChunks = 2
    /\ \E k \in JoinTasks :
          /\ exec[k].exitCode = "nonzero"
          /\ taskStatus[k] = "Failed"
    /\ ChunkFiles(2) \subseteq shared
    /\ FinalOutput \notin shared

\* The tasks whose transcoder has been started on scratch-directory paths.
InvokedOnScratch == {k \in Tasks : exec[k].pc = "running" /\ exec[k].localRenderDir}

\* C17: when the transcoder of a task is started on scratch-directory paths
\* the staging is complete: for chunk arguments the scratch input directory
\* holds exactly the input frames of the chunk's [start, end] range, for
\* concat arguments it holds every chunk file.
C17_StagedBeforeInvoked ==
    \A k \in InvokedOnScratch :
        IF exec[k].args.kind = "chunk"
        THEN LET i == exec[k].args.chunkIndex + 1
             IN  {f \in scratch[k].input : f[1] = "frame"}
                     = FramesToCopy(PluginInfo.ChunkStart[i], PluginInfo.ChunkEnd[i])
        ELSE ChunkFiles(PluginInfo.NumChunks) \subseteq scratch[k].input

\* C18: a task that used local staging and whose transcoder exited with
\* status 0 takes, before it finishes, the copy-back of the output of its
\* role: the chunk file for an encode task, the final output for the join
\* task; a copy that did not fail has put that file on shared storage.
C18_OutputCopiedBack ==
    \A k \in Tasks :
        (exec[k].localRenderDir /\ exec[k].exitCode = "zero"
            /\ exec[k].pc \in {"cleanup", "concatlist", "done"}) =>
            /\ exec[k].copyRole = PositionRole(k)
            /\ exec[k].copyOutcome = "copied" =>
                   CopyBackFile(PositionRole(k), StartFrame(k)) \in shared

\* C19: a staging copy that failed, or a staging that found no input file,
\* fails the task before the transcoder is started.
C19_StagingFailureIsFatal ==
    \A k \in Tasks :
        exec[k].stageOutcome = "failed" =>
            /\ exec[k].pc = "failed"
            /\ taskStatus[k] = "Failed"
            /\ exec[k].invocations = 0

\* C20: a copy-back that raised, or that did not find the produced file in
\* the scratch output directory, does not fail the task: PostRenderTasks
\* goes on, and the task is completed when it ends.
C20_CopyBackFailureNotFatal ==
    \A k \in Tasks :
        exec[k].copyOutcome \in {"failed", "missing"} =>
            /\ exec[k].pc \in {"post", "cleanup", "concatlist", "done"}
            /\ taskStatus[k] = IF exec[k].pc = "done" THEN "Completed" ELSE "Rendering"
            /\ (exec[k].cleanupRole = "encode" \/ KeepChunksSet) => exec[k].pc = "done"

\* An encode task whose chunk could not be copied back is completed, the
\* chunk not being on shared storage.
C20_Witness ==
    /\ Tasks # {}
    /\ \E k \in EncodeTasks :
          /\ exec[k].copyOutcome = "failed"
          /\ exec[k].copyRole = "encode"
          /\ taskStatus[k] = "Completed"
          /\ ChunkFile(StartFrame(k) + 1) \notin shared

\* ------------------------------------------------------ the scratch directory
\* The task executions that have ended, by a failure or with PostRenderTasks.
Ended(k) == exec[k].pc \in {"failed", "done"}

\* C21: with CleanupLocalFiles enabled, every task execution that created a
\* local render directory has removed it when it has ended, whether the
\* transcoder exited with status 0, exited non-zero, or a callback raised
\* (a removal that itself raised aside).
C21_ScratchRemovedOnEveryExit ==
    \A k \in Tasks :
        (plugin.CleanupLocalFiles /\ exec[k].localRenderDir /\ Ended(k)
            /\ exec[k].removal # "raised") => ~scratch[k].exists

\* The task executions that are about to run PreRenderTasks.
Starting(k) == taskStatus[k] = "Rendering" /\ exec[k].pc = "pre"

\* The task identifier of the k-th task of the job (tasks are numbered from 0).
TaskId(k) == k - 1

\* C22: a task execution that starts with local rendering enabled, a retry
\* of a failed task included, finds no file of an earlier execution in its
\* local input and output directories, and no two tasks of the job have the
\* same local render directory.
C22_ScratchNeverReused ==
    /\ \A k \in Tasks :
           (Starting(k) /\ plugin.EnableLocalRendering) =>
               scratch[k].input = {} /\ scratch[k].output = {}
    /\ \A j \in Tasks : \A k \in Tasks :
           j # k => LocalRenderDirName("jobId", TaskId(j))
                        # LocalRenderDirName("jobId", TaskId(k))

\* ------------------------------------------------------------- KeepChunks
\* The join tasks whose PostRenderTasks has ended after their transcoder
\* exited with status 0.
JoinSucceeded == {k \in JoinTasks : exec[k].pc = "done" /\ exec[k].exitCode = "zero"}

\* C23: with KeepChunks configured true no step removes a chunk file or a
\* concat list and PostRenderTasks of the join task ends without entering
\* the cleanup; with KeepChunks false PostRenderTasks of a join task whose
\* transcoder exited with status 0 takes up every chunk 0..N-1 in turn,
\* then the concat list, and only then ends, and no chunk within the
\* cleanup's reach is left that is not recorded as failed.
C23_KeepChunksGatesCleanup ==
    /\ [][config.KeepChunks => LedgerFilesDeleted = {}]_vars
    /\ [](\A k \in JoinSucceeded :
             IF config.KeepChunks
             THEN exec[k].chunk = 0 /\ exec[k].failed_chunks = <<>>
             ELSE /\ exec[k].chunk = PluginInfo.NumChunks
                  /\ \A i \in 1..PluginInfo.NumChunks :
                         (CleanupReaches /\ ChunkFile(i) \in shared)
                             => i \in Elems(exec[k].failed_chunks))
    /\ [][\A k \in JoinTasks :
              /\ (exec[k].pc = "post" /\ exec'[k].pc # "post") =>
                     IF config.KeepChunks THEN exec'[k].pc = "done"
                     ELSE exec'[k].pc = "cleanup" /\ exec'[k].chunk = 0
              /\ (exec[k].pc = "cleanup" /\ exec'[k].chunk # exec[k].chunk) =>
                     exec'[k].chunk = exec[k].chunk + 1
              /\ (exec[k].pc # "concatlist" /\ exec'[k].pc = "concatlist") =>
                     exec'[k].chunk = PluginInfo.NumChunks
              /\ (~config.KeepChunks /\ exec[k].pc # "done" /\ exec'[k].pc = "done") =>
                     exec[k].pc = "concatlist"]_vars

\* With KeepChunks true the join of a three-chunk job has ended: every
\* chunk file and the concat list are still there, next to the final output.
C23_Witness ==
    /\ Tasks # {}
    /\ config.KeepChunks
    /\ PluginInfo.NumChunks = 3
    /\ JoinSucceeded # {}
    /\ ~plugin.EnableLocalRendering
    /\ ChunkFiles(3) \cup {ConcatList, FinalOutput} \subseteq shared

\* ------------------------------------------------------- single-chunk plans
\* OnJobFinished has submitted something for a plan of exactly one range.
SingleRangeSubmitted ==
    /\ eventPc = "returned"
    /\ Len(submitted) >= 1
    /\ Truthy(EventPlan)
    /\ Len(EventPlan.ranges) = 1

\* C24: no task job is built from a plan of exactly one range: when
\* calculateChunks returns a single range, OnJobFinished submits one direct
\* encode job and neither a task job nor chunk jobs with a concat job.
C24_NoSingleChunkTaskJob ==
    /\ TaskJobSubmitted => submitted[1].pluginInfo.NumChunks # 1
    /\ SingleRangeSubmitted => submitted = <<createFFmpegJob(event, NoPluginInfo)>>

\* --------------------------------------------------- writers of shared files
\* Chunk numbers around the widths of the zero-padded field.
PaddingEdges == {9, 10, 99, 100, 999, 1000, 1001}

\* The file names the tasks of a job of numChunks chunks (and of the chunk
\* numbers above) write on shared storage.
ChunkNames(numChunks) ==
    {ChunkFilename("shot010", i, "mp4") : i \in (1..numChunks) \cup PaddingEdges}

\* The shared files a step of task k writes, whether they were there before
\* or not: the concat list RenderArgument writes, the output of the
\* transcoder, the file PostRenderTasks copies back.
WrittenBy(k) ==
    IF exec[k].pc = "args" /\ exec'[k].pc = "running"
    THEN IF exec'[k].args.kind = "concat" /\ ~exec[k].localRenderDir
         THEN {ConcatList} ELSE {}
    ELSE IF exec[k].pc = "running" /\ exec'[k].pc = "post"
    THEN IF exec[k].localRenderDir THEN {} ELSE {Produced(k)} \cap shared'
    ELSE IF exec[k].pc = "post" /\ exec'[k].pc # "post" /\ exec'[k].copyOutcome = "copied"
    THEN {CopyBackFile(exec'[k].copyRole, StartFrame(k))}
    ELSE {}

\* C25: the names of the chunk files of a job are pairwise distinct and
\* differ from the names of the final output and of the concat list, and in
\* every interleaving of the job's tasks a chunk file is written only by
\* the encode task of that chunk, the final output and the concat list
\* only by the join task, and nothing else appears on shared storage.
C25_OneWriterPerSharedPath ==
    /\ [](Tasks # {} =>
            LET N == PluginInfo.NumChunks
            IN  /\ Cardinality(ChunkNames(N)) = Cardinality((1..N) \cup PaddingEdges)
                /\ OutputFilename("shot010", "mp4") \notin ChunkNames(N)
                /\ ConcatListFilename("shot010") \notin ChunkNames(N)
                /\ OutputFilename("shot010", "mp4") # ConcatListFilename("shot010"))
    /\ [][\A k \in Tasks :
              /\ \A f \in WrittenBy(k) :
                     IF PositionRole(k) = "encode"
                     THEN f = ChunkFile(StartFrame(k) + 1)
                     ELSE f \in {FinalOutput, ConcatList}
              /\ shared' \ shared \subseteq UNION {WrittenBy(j) : j \in Tasks}]_vars

\* ----------------------------------------------------- parseFilenameTokens
\* The lower-cased name contains the text.
Has(text) ==
    LET s == lower(planArgs.filename)
    IN  \E a \in 1..Len(s) : MatchesAt(text, s, a)

\* The text is a number: digits, or digits, a point and digits.
IsNumber(text) ==
    \E n \in 1..Len(text) :
        /\ \A j \in 1..n : IsDigit(text[j])
        /\ \/ n = Len(text)
           \/ /\ n + 2 <= Len(text)
              /\ text[n + 1] = "."
              /\ \A j \in (n + 2)..Len(text) : IsDigit(text[j])

\* The numbers N of the tokens [Nfps] and _Nfps of the lower-cased name.
FpsTokenNumbers ==
    LET s == lower(planArgs.filename)
    IN  { float(SubSeq(s, a, b)) : <<a, b>> \in
            { ab \in {a \in 2..Len(s) : s[a - 1] \in {"[", "_"}} \X (2..Len(s)) :
                /\ ab[1] <= ab[2]
                /\ IsNumber(SubSeq(s, ab[1], ab[2]))
                /\ \/ /\ s[ab[1] - 1] = "["
                      /\ MatchesAt(<<"f", "p", "s", "]">>, s, ab[2] + 1)
                   \/ /\ s[ab[1] - 1] = "_"
                      /\ MatchesAt(<<"f", "p", "s">>, s, ab[2] + 1) } }

\* The codec the claim states: the first of h265, h264, prores, hap that
\* has one of its tokens in the name.
ClaimedCodec ==
    IF Has(<<"[", "h", "2", "6", "5", "]">>) \/ Has(<<"_", "h", "2", "6", "5", "_">>) THEN Value("h265")
    ELSE IF Has(<<"[", "h", "2", "6", "4", "]">>) \/ Has(<<"_", "h", "2", "6", "4", "_">>) THEN Value("h264")
    ELSE IF Has(<<"[", "p", "r", "o", "r", "e", "s">>) \/ Has(<<"_", "p", "r", "o", "r", "e", "s">>) THEN Value("prores")
    ELSE IF Has(<<"[", "h", "a", "p">>) \/ Has(<<"_", "h", "a", "p", "_">>) THEN Value("hap")
    ELSE NoValue

\* The name has one of the trigger tokens of the claim.
ClaimedTrigger ==
    \/ Has(<<"[", "f", "f", "m", "p", "e", "g", "]">>) \/ Has(<<"_", "f", "f", "m", "p", "e", "g", "_">>)
    \/ ~ClaimedCodec.isNone

TokensReturned == planPc = "done" /\ ~planResult.isNone

\* C26: parseFilenameTokens returns None exactly when the lower-cased name
\* has none of the trigger tokens; otherwise trigger is True, codec is the
\* first of h265, h264, prores, hap with a token in the name (None when
\* there is none), fps is the number of an [Nfps] or _Nfps token of the
\* name (None when there is none) and audio tells whether [audio] or
\* _audio_ is in the name; the examples of the documentation give the
\* documented results.
C26_TokensParsed ==
    planPc = "done" =>
        /\ planResult.isNone <=> ~ClaimedTrigger
        /\ ~planResult.isNone =>
               /\ planResult.trigger = TRUE
               /\ planResult.codec = ClaimedCodec
               /\ planResult.fps.isNone <=> FpsTokenNumbers = {}
               /\ ~planResult.fps.isNone => planResult.fps.value \in FpsTokenNumbers
               /\ planResult.audio <=> (Has(<<"[", "a", "u", "d", "i", "o", "]">>) \/ Has(<<"_", "a", "u", "d", "i", "o", "_">>))
        /\ planArgs.filename = <<"r", "e", "n", "d", "e", "r", "_", "[", "f", "f", "m", "p", "e", "g", "]", "_", "[", "h", "2", "6", "4", "]", "_", "[", "3", "0", "f", "p", "s", "]", ".", "e", "x", "r">> =>
               planResult = [isNone |-> FALSE, trigger |-> TRUE, codec |-> Value("h264"),
                             fps |-> Value([whole |-> 30, frac |-> <<>>]), audio |-> FALSE,
                             prores_profile |-> NoValue, hap_variant |-> NoValue]
        /\ planArgs.filename = <<"r", "e", "n", "d", "e", "r", "_", "f", "f", "m", "p", "e", "g", "_", "p", "r", "o", "r", "e", "s", "4", "2", "2", "_", "2", "4", "f", "p", "s", ".", "e", "x", "r">> =>
               planResult = [isNone |-> FALSE, trigger |-> TRUE, codec |-> Value("prores"),
                             fps |-> Value([whole |-> 24, frac |-> <<>>]), audio |-> FALSE,
                             prores_profile |-> Value(<<"4", "2", "2">>),
                             hap_variant |-> NoValue]
        /\ planArgs.filename = <<"r", "e", "n", "d", "e", "r", "_", "[", "a", "u", "d", "i", "o", "]", "_", "[", "h", "a", "p", "]", ".", "e", "x", "r">> =>
               planResult = [isNone |-> FALSE, trigger |-> TRUE, codec |-> Value("hap"),
                             fps |-> NoValue, audio |-> TRUE,
                             prores_profile |-> NoValue, hap_variant |-> NoValue]

\* A name in capitals with both an h264 and an h265 token, the h264 token
\* first, and a frame-rate token: h265 and 30 frames per second.
C26_Witness ==
    /\ TokensReturned
    /\ planArgs.filename = <<"_", "H", "2", "6", "4", "_", "[", "H", "2", "6", "5", "]", "_", "3", "0", "f", "p", "s">>
    /\ planResult.codec = Value("h265")
    /\ planResult.fps = Value([whole |-> 30, frac |-> <<>>])
    /\ ~planResult.audio

\* ---------------------------------------------------- the paths of a chunk
\* "{}/{}".format(dir, name) with sep = "/", os.path.join(dir, name) with
\* sep = os.sep.
Under(dir, sep, name) == dir \o <<sep>> \o name

\* Where the encode task of chunk number i leaves its output on shared
\* storage: the file BuildChunkArguments names, or with local staging the
\* file PostRenderTasks copies the chunk back to.
EncodeChunkPath(local, i) ==
    Under(MapPath(PluginInfo.OutputDirectory), IF local THEN Sep(plugin.os) ELSE "/",
          ChunkFilename("shot010", i, "mp4"))

\* Where the join task looks for chunk number i on shared storage: the
\* file BuildConcatArguments lists, or with local staging the file
\* PreRenderTasks copies to the scratch input directory.
JoinChunkPath(local, i) ==
    Under(MapPath(PluginInfo.OutputDirectory), IF local THEN Sep(plugin.os) ELSE "/",
          ChunkFilename("shot010", i, "mp4"))

\* The file the cleanup of PostRenderTasks tries to delete for chunk i.
CleanupChunkPath(i) ==
    Under(normpath(plugin.os, PluginInfo.OutputDirectory), Sep(plugin.os),
          ChunkFilename("shot010", i, "mp4"))

\* The concat list BuildConcatArguments writes.
ConcatListWritten(local) ==
    Under(IF local THEN LocalInputDir ELSE MapPath(PluginInfo.OutputDirectory), "/",
          ConcatListFilename("shot010"))

\* The concat list the cleanup of PostRenderTasks tries to delete.
ConcatListDeleted ==
    Under(normpath(plugin.os, PluginInfo.OutputDirectory), Sep(plugin.os),
          ConcatListFilename("shot010"))

\* The join tasks whose cleanup is under way.
InCleanup == {k \in JoinTasks : exec[k].pc \in {"cleanup", "concatlist"}}

\* C27: on every worker, with or without a path mapping and with or
\* without local staging, the path at which the encode task leaves chunk i,
\* the path the join task reads for chunk i and the path the cleanup tries
\* to delete name the same place, and the concat list the cleanup deletes
\* is the concat list the join task wrote.
C27_SamePathEverywhere ==
    \A k \in InCleanup :
        /\ \A i \in 1..PluginInfo.NumChunks : \A encodeLocal \in BOOLEAN :
               /\ SamePlace(EncodeChunkPath(encodeLocal, i),
                            JoinChunkPath(exec[k].localRenderDir, i))
               /\ SamePlace(JoinChunkPath(exec[k].localRenderDir, i), CleanupChunkPath(i))
        /\ SamePlace(ConcatListWritten(exec[k].localRenderDir), ConcatListDeleted)

\* The first two of the three paths agree on every worker.
C27_EncodeAndJoinAgree ==
    \A k \in InCleanup :
        \A i \in 1..PluginInfo.NumChunks : \A encodeLocal \in BOOLEAN :
            SamePlace(EncodeChunkPath(encodeLocal, i),
                      JoinChunkPath(exec[k].localRenderDir, i))

\* Without a path mapping and without local staging all of them agree.
C27_AgreeUnmappedUnstaged ==
    \A k \in InCleanup :
        (~plugin.pathMapping /\ ~exec[k].localRenderDir) =>
            /\ \A i \in 1..PluginInfo.NumChunks :
                   SamePlace(JoinChunkPath(FALSE, i), CleanupChunkPath(i))
            /\ SamePlace(ConcatListWritten(FALSE), ConcatListDeleted)

\* ------------------------------------------------------- the deliverable
\* The chunk files a step removes from shared storage.
ChunksDeleted == {f \in shared \ shared' : f[1] = "chunk"}

\* A step removes the scratch area of task k.
ScratchRemoved(k) == scratch[k].exists /\ ~scratch'[k].exists

\* C28: whenever the join task deletes a chunk file or removes its scratch
\* area, the final output file is on shared storage: at the latest the
\* step that removes the scratch area has copied it back.
C28_DeliverableNeverLost ==
    [][\A k \in JoinTasks \cap ActingTasks :
          (ChunksDeleted # {} \/ ScratchRemoved(k)) => FinalOutput \in shared']_vars

\* The same for the steps before which the transcoder's output is at hand,
\* on shared storage or in the scratch area.
C28_NotLostOnceWritten ==
    [][\A k \in JoinTasks \cap ActingTasks :
          (/\ ChunksDeleted # {} \/ ScratchRemoved(k)
           /\ FinalOutput \in shared \cup scratch[k].output)
              => FinalOutput \in shared']_vars

\* ------------------------------------------------ the listener's own jobs
\* The job carries the marks of a job of the listener.
OwnMarks(pluginName, name) ==
    /\ pluginName \in {"FFmpeg", "AutoFFmpegTask"}
    /\ EndsWith(name, "_Encode") \/ EndsWith(name, "_Concat")

\* The finished job at hand carries one of the marks.
OwnEvent ==
    \/ event.JobPlugin \in {"FFmpeg", "AutoFFmpegTask"}
    \/ EndsWith(event.JobName, "_Encode")
    \/ EndsWith(event.JobName, "_Concat")

\* C29: every job OnJobFinished submits carries plugin FFmpeg or
\* AutoFFmpegTask and a name ending in _Encode or _Concat; OnJobFinished
\* submits nothing for a finished job with such a plugin or such a name;
\* so when the submitted jobs finish in turn nothing is added to what the
\* render job's event submitted.
C29_NeverRetriggersOnOwnOutput ==
    [][/\ \A j \in 1..Len(submitted') :
              OwnMarks(submitted'[j].Plugin, submitted'[j].Name)
       /\ (eventPc = "pending" /\ OwnEvent) => submitted' = submitted
       /\ submitted # <<>> => submitted' = submitted]_vars

\* The event of a finished chunk job under job-based chunking has been
\* handled, and the chunk jobs and the concat job are all there is.
C29_Witness ==
    /\ eventPc = "returned"
    /\ event.JobPlugin = "FFmpeg"
    /\ EndsWith(event.JobName, "_Encode")
    /\ Len(submitted) >= 3
    /\ submitted[Len(submitted)].Name = <<"shot010", "_Concat">>

\* ------------------------------------------------ the frame rate of the job
\* The tokens OnJobFinished has parsed for the job at hand.
TokensAtHand == FilenameTokens(event.State, planArgs.JobName, planArgs.inputFileName)

\* The four sources of a frame rate, in the order of their priority: the
\* token, the override when it is above zero, the detected rate, the
\* predicted rate.
RateSources ==
    LET token == \E tokens \in {TokensAtHand} : ~tokens.isNone /\ ~tokens.fps.isNone
    IN  << IF token THEN TokensAtHand.fps ELSE NoValue,
           IF Positive(planArgs.FrameRateOverride)
           THEN Value(planArgs.FrameRateOverride) ELSE NoValue,
           planArgs.detected_frame_rate,
           predictFrameRate(planArgs) >>

\* The handler has come to choose a frame rate.
FrameRateChosen == planPc = "done" /\ planResult.reached

\* The first of the sources for which `yields` holds yields the rate of
\* the job, and without such a source no job is submitted.
FirstSourceWins(sources, yields(_)) ==
    LET good == {j \in 1..Len(sources) : yields(sources[j])}
    IN  IF good = {}
        THEN submitted = <<>>
        ELSE /\ submitted # <<>>
             /\ planResult.final_frame_rate =
                    sources[CHOOSE j \in good : \A h \in good : j <= h]

\* C30 as stated: the frame rate of the job is the first of token FPS,
\* FrameRateOverride above zero, detected rate and predicted rate that is
\* present, and with none of them present no job is submitted.
C30_StrictPriority ==
    FrameRateChosen =>
        \A sources \in {RateSources} : FirstSourceWins(sources, LAMBDA v : ~v.isNone)

\* C30, amended: the frame rate of the job is the first of token FPS,
\* FrameRateOverride above zero, detected rate and predicted rate that is
\* present and not zero, and with none of them no job is submitted.
C30_StrictPriorityOfNonZero ==
    FrameRateChosen =>
        \A sources \in {RateSources} :
            FirstSourceWins(sources, LAMBDA v : ~v.isNone /\ NonZero(v.value))

\* A job whose input file carries [30fps], with an override of 25 and a
\* detected rate of 24, is encoded at 30.
C30_Witness ==
    /\ FrameRateChosen
    /\ planArgs.inputFileName = <<"s", "h", "o", "t", "_", "[", "h", "2", "6", "4", "]", "_", "[", "3", "0", "f", "p", "s", "]", ".", "e", "x", "r">>
    /\ planArgs.FrameRateOverride = Rate(25, <<>>)
    /\ planArgs.detected_frame_rate = Value(Rate(24, <<>>))
    /\ planResult.final_frame_rate = Value(Rate(30, <<>>))
    /\ submitted # <<>>

\* A job whose tokens carry [0fps], with an override of 25, is encoded at
\* 25: the token is there and is passed over.
C30_ZeroTokenPassedOver ==
    /\ FrameRateChosen
    /\ RateSources[1] = Value(Rate(0, <<>>))
    /\ planResult.final_frame_rate = Value(Rate(25, <<>>))
    /\ submitted # <<>>

====
